---------------------------- MODULE Spec2Model ----------------------------
(***************************************************************************)
(* The Slack polling daemon (slack_assistant/slack/poller.py), its client  *)
(* wrapper (slack/client.py) and the repository it writes to               *)
(* (db/repository.py), as one state machine.                               *)
(*                                                                         *)
(* The workspace on the Slack side and the PostgreSQL tables are state;    *)
(* SlackPoller.start() is a sequential process at position `pc`.  One      *)
(* _sync_channel_messages call is one step: the repository calls it makes  *)
(* are computed as a list, and the step applies all of them, or the first  *)
(* k when an exception or a cancellation ends the call at one of its       *)
(* awaits.  The other asyncio tasks (a caller of stop(), a task.cancel())  *)
(* and the Slack workspace itself act between two steps of the poller.     *)
(*                                                                         *)
(* Timestamps: Slack's ts strings have a fixed width, so their string      *)
(* order is their numeric order; the model uses the integers 1..MaxTs and  *)
(* NoTs (0) for Python's None.                                             *)
(***************************************************************************)
EXTENDS Integers, Sequences, FiniteSets

\* ------------------------------------------------------------------ bounds

\* Messages (top-level and replies) the workspace ever receives.
MaxTs == 3
\* Polls of the main loop after the initial cycle.
MaxPolls == 2
\* get_channel_history(limit=100): the per-fetch item cap, scaled down.
HistoryLimit == 2
\* get_thread_replies(limit=100): entries of one conversations.replies
\* answer (the parent included), scaled down.
RepliesLimit == 3

\* ------------------------------------------------------- the small universes

\* The conversation ids, the authors of messages and the (emoji name,
\* user id) pairs of reactions.  Which conversations a workspace has is the
\* variable convs, fixed by the initial condition: one in Spec, where
\* messages have replies and reactions, two in SpecTwoChannels, where they
\* have none.
Channels == {"C1", "C2"}
\* user_id of a message without 'user' (Python's None)
NoUser == "none"
Authors == {"U1"}
ReactionPairs == {<<"+1", "U9">>}
\* last_ts of a channel without sync_state row (Python's None)
NoTs == 0
\* Message.id before the row exists (Python's None)
NoId == 0
\* `if poll_count % 10 == 0` of start()
RefreshEvery == 10

VARIABLES
    \* --- the Slack workspace (remote)
    convs,        \* the conversations the user is a member of
    rmsgs,        \* set of [channel, ts, user, thread_ts, reacts]
    nextTs,       \* the ts the next posted message gets
    \* --- the PostgreSQL tables
    channels,     \* channels: set of ids (is_archived = FALSE for all of them)
    messages,     \* messages: set of rows
    nextId,       \* the messages_id_seq sequence
    reactions,    \* reactions: set of <<message_id, name, user_id>>
    sync_state,   \* sync_state: channel -> last_ts (NoTs: no row)
    users,        \* users: set of ids
    \* --- SlackPoller
    pc,           \* position of start()
    running,      \* self._running
    poll_count,   \* poll_count of start()
    chanTodo,     \* channels of `for channel in channels` not yet synced
    \* --- observers (history variables, read by no action guard)
    last,         \* what the step just taken did, if it synced a channel
    changed,      \* the workspace changed since the cycle before ended
    synced,       \* channel -> a sync of it ran to its end, on a history
                  \* that was fetched, since the channel last changed
    skipped,      \* the channels whose last history fetch that came to
                  \* an end ended in a Slack API error
    \* --- the services (services/search.py, services/status.py)
    call,         \* the service call being made, with what it will read
    ret,          \* what the call returned
    did           \* observer: the queries and calls it made, in order

remoteVars == <<convs, rmsgs, nextTs>>
dbVars == <<channels, messages, nextId, reactions, sync_state, users>>
pollerVars == <<convs, rmsgs, nextTs, channels, messages, nextId, reactions,
                sync_state, users, pc, running, poll_count, chanTodo, last,
                changed, synced, skipped>>
svcVars == <<call, ret, did>>
vars == <<pollerVars, svcVars>>

\* ----------------------------------------------------------------- helpers

Min(a, b) == IF a < b THEN a ELSE b

RECURSIVE Reverse(_)
Reverse(s) == IF s = <<>> THEN <<>> ELSE Append(Reverse(Tail(s)), Head(s))

\* The records of S as a sequence, greatest ts first.
RECURSIVE NewestFirst(_)
NewestFirst(S) ==
    IF S = {} THEN <<>>
    ELSE LET m == CHOOSE x \in S : \A y \in S : y.ts <= x.ts
         IN <<m>> \o NewestFirst(S \ {m})

\* ------------------------------------------------------ the Slack workspace

TopLevel(c) == {m \in rmsgs : m.channel = c /\ m.thread_ts = NoTs}

ThreadOf(c, ts) == {m \in rmsgs : m.channel = c /\ m.thread_ts = ts}

\* A message as conversations.history and conversations.replies return it:
\* a parent carries reply_count and its own ts as thread_ts, a reply the
\* parent's ts as thread_ts and no reply_count (Message.from_slack reads 0).
ApiMessage(m) ==
    LET k == Cardinality(ThreadOf(m.channel, m.ts))
    IN [ts |-> m.ts, user |-> m.user, reacts |-> m.reacts, reply_count |-> k,
        thread_ts |-> IF m.thread_ts # NoTs THEN m.thread_ts
                      ELSE IF k > 0 THEN m.ts ELSE NoTs]

ApiSeq(s) == [i \in 1..Len(s) |-> ApiMessage(s[i])]


\* --------------------------------------------------------- slack/client.py

\* A faulty variant of the request: the cursor sent as the upper end of the
\* range (`latest`) instead of `oldest`.
HistorySelectionLatest(c, old) ==
    IF old # NoTs THEN {m \in TopLevel(c) : m.ts < old} ELSE TopLevel(c)

\* What conversations.history is asked for: with `oldest` in the request the
\* messages strictly newer than it, without it every message of the channel.
HistorySelection(c, old) ==
    IF old # NoTs THEN {m \in TopLevel(c) : m.ts > old} ELSE TopLevel(c)

\* A faulty variant of get_channel_history: the except branch returns the
\* messages of the pages read so far.
RECURSIVE HistoryLoopPartial(_, _, _, _)
HistoryLoopPartial(avail, got, pageSize, failAt) ==
    LET n == Min(Min(HistoryLimit - Len(got), pageSize), Len(avail))
        all == got \o SubSeq(avail, 1, n)
        rest == SubSeq(avail, n + 1, Len(avail))
    IN IF failAt = 1 THEN [ok |-> FALSE, msgs |-> got]
       ELSE IF Len(all) >= HistoryLimit THEN [ok |-> TRUE, msgs |-> all]
       ELSE IF rest = <<>> THEN [ok |-> TRUE, msgs |-> all]
       ELSE HistoryLoopPartial(rest, all, pageSize,
                               IF failAt = 0 THEN 0 ELSE failAt - 1)

\* The `while True` loop of get_channel_history over the answer pages.
\* avail: what the workspace still has to return, newest first; got: the
\* `messages` list; pageSize: how many items Slack puts on a page at most;
\* failAt: the request that ends in SlackApiError (0: none).
RECURSIVE HistoryLoop(_, _, _, _)
HistoryLoop(avail, got, pageSize, failAt) ==
    LET n == Min(Min(HistoryLimit - Len(got), pageSize), Len(avail))
        all == got \o SubSeq(avail, 1, n)
        rest == SubSeq(avail, n + 1, Len(avail))
    IN IF failAt = 1 THEN [ok |-> FALSE, msgs |-> <<>>]
       ELSE IF Len(all) >= HistoryLimit THEN [ok |-> TRUE, msgs |-> all]
       ELSE IF rest = <<>> THEN [ok |-> TRUE, msgs |-> all]
       ELSE HistoryLoop(rest, all, pageSize,
                        IF failAt = 0 THEN 0 ELSE failAt - 1)

GetChannelHistory(c, old, pageSize, failAt) ==
    HistoryLoop(ApiSeq(NewestFirst(HistorySelection(c, old))), <<>>,
                pageSize, failAt)

\* conversations.replies answers the parent and then its replies, oldest
\* first, `limit` entries at most, or fails with SlackApiError.
ConversationsReplies(c, ts, fails) ==
    LET parent == {m \in TopLevel(c) : m.ts = ts}
        all == NewestFirst(parent) \o Reverse(NewestFirst(ThreadOf(c, ts)))
    IN IF fails THEN [ok |-> FALSE, messages |-> <<>>]
       ELSE [ok |-> TRUE,
             messages |-> ApiSeq(SubSeq(all, 1, Min(RepliesLimit, Len(all))))]

\* A faulty variant of get_thread_replies: the first entry is returned
\* with the others.
GetThreadRepliesWithParent(c, ts, fails) ==
    ConversationsReplies(c, ts, fails).messages

\* get_thread_replies: the parent is dropped; [] on SlackApiError.
GetThreadReplies(c, ts, fails) ==
    LET response == ConversationsReplies(c, ts, fails)
    IN IF ~response.ok THEN <<>>
       ELSE IF Len(response.messages) > 1 THEN Tail(response.messages)
       ELSE <<>>

\* ----------------------------------------------------- db/models.py, db/repository.py

\* Message.from_slack
FromSlack(c, m) ==
    [channel_id |-> c, ts |-> m.ts, user_id |-> m.user,
     thread_ts |-> m.thread_ts, reply_count |-> m.reply_count]

WithId(i, msg) ==
    [id |-> i, channel_id |-> msg.channel_id, ts |-> msg.ts,
     user_id |-> msg.user_id, thread_ts |-> msg.thread_ts,
     reply_count |-> msg.reply_count]

Conflict(rows, msg) ==
    {r \in rows : r.channel_id = msg.channel_id /\ r.ts = msg.ts}

\* A faulty variant of upsert_message: a plain INSERT, no ON CONFLICT clause.
UpsertMessageInsert(rows, seq, msg) == rows \cup {WithId(seq, msg)}

\* A faulty variant of upsert_message: the conflict resolved by REPLACE on
\* the channel, which drops the channel's other rows.
UpsertMessageReplace(rows, seq, msg) ==
    {r \in rows : r.channel_id # msg.channel_id}
    \cup {WithId(IF Conflict(rows, msg) = {} THEN seq
                 ELSE (CHOOSE r \in Conflict(rows, msg) : TRUE).id, msg)}

\* INSERT INTO messages ... ON CONFLICT (channel_id, ts) DO UPDATE SET ...
\* rows: the table; seq: the next value of the id sequence.
UpsertMessage(rows, seq, msg) ==
    IF Conflict(rows, msg) = {}
    THEN rows \cup {WithId(seq, msg)}
    ELSE (rows \ Conflict(rows, msg))
         \cup {WithId(r.id, msg) : r \in Conflict(rows, msg)}

\* ... RETURNING id
ReturningId(rows, seq, msg) ==
    IF Conflict(rows, msg) = {} THEN seq
    ELSE (CHOOSE r \in Conflict(rows, msg) : TRUE).id

\* DELETE FROM reactions WHERE message_id = $1
DeleteReactions(rx, id) == {r \in rx : r[1] # id}

\* upsert_reactions: the DELETE, then one INSERT per (name, user).
UpsertReactions(rx, id, pairs) ==
    DeleteReactions(rx, id) \cup {<<id, p[1], p[2]>> : p \in pairs}

\* upsert_sync_state: ON CONFLICT (channel_id) DO UPDATE SET last_ts = ...
UpsertSyncState(tab, c, ts) == [tab EXCEPT ![c] = ts]

\* _ensure_user_cached: the users table after it; found: users.info answered
\* (get_user_info gives None on SlackApiError).
EnsureUserCached(tab, user_id, found) ==
    IF user_id \in tab THEN tab
    ELSE IF found THEN tab \cup {user_id}
    ELSE tab

\* One call of the client or of the repository, as the observers record it.
Called(kind, ts, user_id, via) ==
    [op |-> kind, ts |-> ts, user |-> user_id, via |-> via]

\* A faulty variant of _ensure_user_cached: users.info is asked, and the
\* row written, whether a row is stored or not.
EnsureUserCallsRefreshing(tab, user_id, found) ==
    <<Called("get_user", NoTs, user_id, "none"),
      Called("get_user_info", NoTs, user_id, "none")>>
    \o (IF found THEN <<Called("upsert_user", NoTs, user_id, "none")>>
        ELSE <<>>)

\* _ensure_user_cached: the calls it makes, lines 172-188.
EnsureUserCalls(tab, user_id, found) ==
    <<Called("get_user", NoTs, user_id, "none")>>
    \o (IF user_id \in tab THEN <<>>
        ELSE <<Called("get_user_info", NoTs, user_id, "none")>>
             \o (IF found
                 THEN <<Called("upsert_user", NoTs, user_id, "none")>>
                 ELSE <<>>))

\* --------------------------------------------------------- slack/poller.py

\* One call made by _sync_channel_messages or _sync_thread_replies for the
\* message m of channel c; via: the fetch that m came from, "history" or
\* "thread".
Op(kind, c, m, via) ==
    [op |-> kind, msg |-> FromSlack(c, m), reacts |-> m.reacts, via |-> via]

\* The call of get_thread_replies for the parent m, line 158; entries: the
\* ts of what conversations.replies answered.
ThreadFetch(c, m, fails) ==
    [op |-> "get_thread_replies", msg |-> FromSlack(c, m),
     reacts |-> m.reacts, via |-> "history",
     entries |-> [i \in 1..Len(ConversationsReplies(c, m.ts, fails).messages)
                    |-> ConversationsReplies(c, m.ts, fails).messages[i].ts]]

\* A faulty variant of _sync_thread_replies: the thread of a reply with a
\* reply_count is fetched as well.
ReplyOpsExpanding(c, r) ==
    <<Op("upsert_message", c, r, "thread")>>
    \o (IF r.reacts # {}
        THEN <<Op("upsert_reactions", c, r, "thread")>> ELSE <<>>)
    \o (IF r.reply_count > 0
        THEN <<[op |-> "get_thread_replies", msg |-> FromSlack(c, r),
                reacts |-> r.reacts, via |-> "thread", entries |-> <<>>]>>
        ELSE <<>>)
    \o (IF r.user # NoUser
        THEN <<Op("ensure_user", c, r, "thread")>> ELSE <<>>)

\* The calls for one reply, lines 161-168: upsert_message, upsert_reactions
\* `if reactions`, _ensure_user_cached `if reply.user_id`.
ReplyOps(c, r) ==
    <<Op("upsert_message", c, r, "thread")>>
    \o (IF r.reacts # {}
        THEN <<Op("upsert_reactions", c, r, "thread")>> ELSE <<>>)
    \o (IF r.user # NoUser
        THEN <<Op("ensure_user", c, r, "thread")>> ELSE <<>>)

RECURSIVE ThreadOps(_, _)
ThreadOps(c, rs) ==
    IF rs = <<>> THEN <<>> ELSE ReplyOps(c, Head(rs)) \o ThreadOps(c, Tail(rs))

\* A faulty variant of the loop body: no message is skipped.
MessageOpsWithoutSkip(c, m, old, threadFails) ==
    <<Op("upsert_message", c, m, "history")>>
    \o (IF m.reacts # {}
        THEN <<Op("upsert_reactions", c, m, "history")>> ELSE <<>>)
    \o (IF m.reply_count > 0
        THEN <<ThreadFetch(c, m, m.ts \in threadFails)>>
             \o ThreadOps(c, GetThreadReplies(c, m.ts, m.ts \in threadFails))
        ELSE <<>>)
    \o (IF m.user # NoUser
        THEN <<Op("ensure_user", c, m, "history")>> ELSE <<>>)

\* The body of `for msg_data in messages:`, lines 126-147, for one message:
\* the `<= oldest` skip, upsert_message, upsert_reactions `if reactions`,
\* the thread `if msg.reply_count > 0`, _ensure_user_cached `if msg.user_id`.
\* threadFails: the parents whose conversations.replies call fails.
MessageOps(c, m, old, threadFails) ==
    IF old # NoTs /\ m.ts <= old THEN <<>>
    ELSE <<Op("upsert_message", c, m, "history")>>
         \o (IF m.reacts # {}
             THEN <<Op("upsert_reactions", c, m, "history")>> ELSE <<>>)
         \o (IF m.reply_count > 0
             THEN <<ThreadFetch(c, m, m.ts \in threadFails)>>
                  \o ThreadOps(c, GetThreadReplies(c, m.ts,
                                                   m.ts \in threadFails))
             ELSE <<>>)
         \o (IF m.user # NoUser
             THEN <<Op("ensure_user", c, m, "history")>> ELSE <<>>)

RECURSIVE BatchOps(_, _, _, _)
BatchOps(c, batch, old, threadFails) ==
    IF batch = <<>> THEN <<>>
    ELSE MessageOps(c, Head(batch), old, threadFails)
         \o BatchOps(c, Tail(batch), old, threadFails)

\* A faulty variant of _sync_channel_messages: the cursor written before
\* the messages.
ChannelOpsCursorFirst(c, fetched, old, threadFails) ==
    IF fetched = <<>> THEN <<>>
    ELSE (IF fetched[1].ts # NoTs
          THEN <<Op("upsert_sync_state", c, fetched[1], "history")>>
          ELSE <<>>)
         \o BatchOps(c, Reverse(fetched), old, threadFails)

\* A faulty variant of _sync_channel_messages: the batch is processed as
\* it was returned, newest first.
ChannelOpsNewestFirst(c, fetched, old, threadFails) ==
    IF fetched = <<>> THEN <<>>
    ELSE BatchOps(c, fetched, old, threadFails)
         \o (IF fetched[1].ts # NoTs
             THEN <<Op("upsert_sync_state", c, fetched[1], "history")>>
             ELSE <<>>)

\* A faulty variant of _sync_channel_messages: newest_ts taken from the
\* last message of the batch.
ChannelOpsCursorOldest(c, fetched, old, threadFails) ==
    IF fetched = <<>> THEN <<>>
    ELSE BatchOps(c, Reverse(fetched), old, threadFails)
         \o <<Op("upsert_sync_state", c, fetched[Len(fetched)], "history")>>

\* _sync_channel_messages from line 117 on, for what get_channel_history
\* returned (newest first): nothing `if not messages`; else the messages
\* oldest first, then upsert_sync_state with newest_ts = messages[0]['ts'].
ChannelOps(c, fetched, old, threadFails) ==
    IF fetched = <<>> THEN <<>>
    ELSE BatchOps(c, Reverse(fetched), old, threadFails)
         \o (IF fetched[1].ts # NoTs
             THEN <<Op("upsert_sync_state", c, fetched[1], "history")>>
             ELSE <<>>)

\* The tables a channel sync writes, as one value.
Db == [messages |-> messages, nextId |-> nextId, reactions |-> reactions,
       users |-> users, sync_state |-> sync_state]

ApplyOp(db, o, found) ==
    CASE o.op = "upsert_message" ->
           [db EXCEPT !.messages = UpsertMessage(db.messages, db.nextId, o.msg),
                      !.nextId = IF Conflict(db.messages, o.msg) = {}
                                 THEN db.nextId + 1 ELSE db.nextId]
      [] o.op = "upsert_reactions" ->
           [db EXCEPT !.reactions =
               UpsertReactions(db.reactions,
                               ReturningId(db.messages, db.nextId, o.msg),
                               o.reacts)]
      [] o.op = "ensure_user" ->
           [db EXCEPT !.users = EnsureUserCached(db.users, o.msg.user_id, found)]
      [] o.op = "upsert_sync_state" ->
           [db EXCEPT !.sync_state =
               UpsertSyncState(db.sync_state, o.msg.channel_id, o.msg.ts)]
      [] o.op = "get_thread_replies" -> db

\* What the observers record of the call o, made on the users table tab.
CallsOf(tab, o, found) ==
    IF o.op = "ensure_user"
    THEN [i \in 1..Len(EnsureUserCalls(tab, o.msg.user_id, found)) |->
            [EnsureUserCalls(tab, o.msg.user_id, found)[i]
               EXCEPT !.ts = o.msg.ts, !.via = o.via]]
    ELSE IF o.op = "get_thread_replies"
    THEN <<[op |-> o.op, ts |-> o.msg.ts, user |-> o.msg.user_id,
            via |-> o.via, entries |-> o.entries]>>
    ELSE <<Called(o.op, o.msg.ts, o.msg.user_id, o.via)>>

\* What they record of the first k calls of ops.
RECURSIVE CallsOfOps(_, _, _, _)
CallsOfOps(tab, ops, k, found) ==
    IF k = 0 \/ ops = <<>> THEN <<>>
    ELSE CallsOf(tab, Head(ops), found)
         \o CallsOfOps(IF Head(ops).op = "ensure_user"
                       THEN EnsureUserCached(tab, Head(ops).msg.user_id, found)
                       ELSE tab,
                       Tail(ops), k - 1, found)

\* The first k calls of ops, in order.
RECURSIVE ApplyOps(_, _, _, _)
ApplyOps(db, ops, k, found) ==
    IF k = 0 \/ ops = <<>> THEN db
    ELSE ApplyOps(ApplyOp(db, Head(ops), found), Tail(ops), k - 1, found)

SetDb(db) ==
    /\ messages' = db.messages
    /\ nextId' = db.nextId
    /\ reactions' = db.reactions
    /\ users' = db.users
    /\ sync_state' = db.sync_state

CyclePcs == {"discover", "list", "sync"}
ActivePcs == CyclePcs \cup {"sleep", "pause5"}
\* start() has ended: "returned" (the loop was left), "raised" (an
\* exception left it), "cancelled" (CancelledError left it), "authfailed".

\* A faulty variant of the loop: `while True:`.
LoopTopForever == "sleep"

\* `while self._running:` at the top of the loop.
LoopTop == IF running THEN "sleep" ELSE "returned"

\* The initial cycle runs before the loop, outside its try.
InitialCycle == poll_count = 0

\* ---- observers

NoLast == [chan |-> "", how |-> "none", at |-> "none", old |-> NoTs,
           again |-> FALSE, retry |-> FALSE, upserted |-> {}, updated |-> {},
           stored |-> {}, fetched |-> <<>>, calls |-> <<>>]

UpsertIndexes(ops, k) == {i \in 1..k : ops[i].op = "upsert_message"}

\* how: "done", "empty", "apierror", "exception" or "cancel"; at: the call
\* that an exception or a cancellation kept from completing; old: the cursor
\* read at line 112; again: the channel was synced, and has not changed
\* since, when this sync began; retry: the channel's fetch before this one
\* ended in a Slack API error; upserted: the ts whose upsert_message ran;
\* updated: those of them that had a row before;
\* stored: the fetched messages whose upsert_message and reaction write (when
\* the code makes one) both ran; fetched: the ts of what
\* get_channel_history returned; calls: the calls made after that fetch, in
\* order.
LastSync(c, how, old, fetched, ops, k, found) ==
    [chan |-> c, how |-> how,
     at |-> IF how \notin {"exception", "cancel"} THEN "none"
            ELSE IF k < Len(ops) THEN ops[k + 1].op ELSE "fetch",
     old |-> old, again |-> synced[c], retry |-> c \in skipped,
     upserted |-> {ops[i].msg.ts : i \in UpsertIndexes(ops, k)},
     updated |-> {ops[i].msg.ts :
                    i \in {j \in UpsertIndexes(ops, k) :
                             Conflict(messages, ops[j].msg) # {}}},
     stored |-> {[ts |-> ops[i].msg.ts, reacts |-> ops[i].reacts] :
                   i \in {j \in UpsertIndexes(ops, k) :
                            ops[j].reacts = {} \/ j + 1 <= k}},
     fetched |-> [i \in 1..Len(fetched) |-> fetched[i].ts],
     calls |-> CallsOfOps(users, ops, k, found)]

\* The state before start() is called: an empty workspace with the
\* conversations ws, empty tables, a poller just constructed.
InitIn(ws) ==
    /\ convs = ws
    /\ rmsgs = {}
    /\ nextTs = 1
    /\ channels = {}
    /\ messages = {}
    /\ nextId = 1
    /\ reactions = {}
    /\ sync_state = [c \in Channels |-> NoTs]
    /\ users = {}
    /\ pc = "init"
    /\ running = FALSE
    /\ poll_count = 0
    /\ chanTodo = {}
    /\ last = NoLast
    /\ changed = FALSE
    /\ synced = [c \in Channels |-> FALSE]
    /\ skipped = {}

\* No service call is made while the poller is observed.
NoCall == [op |-> "none"]
NoRet == [state |-> "none"]

Init == InitIn({"C1"}) /\ call = NoCall /\ ret = NoRet /\ did = <<>>

\* ---- the workspace changes

\* The workspace changes at any time, and the poller sees a change only in
\* a fetch.  A change made during a cycle reaches the database exactly like
\* the same change made before that cycle (when the channel's fetch came
\* after it) or after it, so the model lets the workspace change while the
\* poller has not started or sleeps.  A fetch reads one state of the
\* workspace.
MayChange == pc \in {"init", "sleep"}

RemoteChanged(c) ==
    /\ MayChange
    /\ changed' = (pc = "sleep")
    /\ synced' = [synced EXCEPT ![c] = FALSE]
    /\ skipped' = skipped
    /\ last' = NoLast

RemotePost ==
    /\ nextTs <= MaxTs
    /\ \E c \in convs, u \in Authors :
         /\ rmsgs' = rmsgs \cup {[channel |-> c, ts |-> nextTs, user |-> u,
                                  thread_ts |-> NoTs, reacts |-> {}]}
         /\ RemoteChanged(c)
    /\ nextTs' = nextTs + 1
    /\ UNCHANGED <<convs, dbVars, pc, running, poll_count, chanTodo>>
    /\ UNCHANGED svcVars

RemoteReply ==
    /\ nextTs <= MaxTs
    /\ \E p \in {m \in rmsgs : m.thread_ts = NoTs}, u \in Authors :
         /\ rmsgs' = rmsgs \cup {[channel |-> p.channel, ts |-> nextTs,
                                  user |-> u, thread_ts |-> p.ts,
                                  reacts |-> {}]}
         /\ RemoteChanged(p.channel)
    /\ nextTs' = nextTs + 1
    /\ UNCHANGED <<convs, dbVars, pc, running, poll_count, chanTodo>>
    /\ UNCHANGED svcVars

\* A user adds or removes a reaction.
RemoteReact ==
    /\ \E m \in rmsgs, p \in ReactionPairs :
         /\ rmsgs' = (rmsgs \ {m}) \cup
                {[m EXCEPT !.reacts = IF p \in m.reacts THEN m.reacts \ {p}
                                      ELSE m.reacts \cup {p}]}
         /\ RemoteChanged(m.channel)
    /\ UNCHANGED <<convs, nextTs, dbVars, pc, running, poll_count, chanTodo>>
    /\ UNCHANGED svcVars

\* ---- start()

\* A start() that discovers the conversations before it looks at the answer
\* of authenticate().
StartDiscoveringFirst ==
    /\ pc = "init"
    /\ channels' = convs
    /\ \E ok \in BOOLEAN :
         IF ok
         THEN /\ pc' = "list"
              /\ running' = TRUE
         ELSE /\ pc' = "authfailed"
              /\ UNCHANGED running
    /\ last' = NoLast
    /\ UNCHANGED <<remoteVars, messages, nextId, reactions, sync_state,
                   users, poll_count, chanTodo, changed, synced, skipped>>
    /\ UNCHANGED svcVars

\* lines 34-39: authenticate, then self._running = True.
Start ==
    /\ pc = "init"
    /\ \E ok \in BOOLEAN :
         IF ok
         THEN /\ pc' = "discover"
              /\ running' = TRUE
         ELSE /\ pc' = "authfailed"
              /\ UNCHANGED running
    /\ last' = NoLast
    /\ UNCHANGED <<remoteVars, dbVars, poll_count, chanTodo, changed,
                   synced, skipped>>
    /\ UNCHANGED svcVars

\* _sync_channels: get_conversations answers every conversation of the
\* workspace, or [] on SlackApiError; one upsert_channel per conversation.
SyncChannels ==
    /\ pc = "discover"
    /\ \E ok \in BOOLEAN :
         channels' = IF ok THEN channels \cup convs ELSE channels
    /\ pc' = "list"
    /\ last' = NoLast
    /\ UNCHANGED <<remoteVars, messages, nextId, reactions, sync_state, users,
                   running, poll_count, chanTodo, changed, synced, skipped>>
    /\ UNCHANGED svcVars

\* A faulty variant of _sync_all_messages: the channels whose history
\* fetch failed are left out of the later cycles.
ListChannelsDroppingSkipped ==
    /\ pc = "list"
    /\ chanTodo' = channels \ skipped
    /\ pc' = "sync"
    /\ last' = NoLast
    /\ UNCHANGED <<remoteVars, dbVars, running, poll_count, changed,
                   synced, skipped>>
    /\ UNCHANGED svcVars

\* _sync_all_messages: channels = await self.repository.get_all_channels()
ListChannels ==
    /\ pc = "list"
    /\ chanTodo' = channels
    /\ pc' = "sync"
    /\ last' = NoLast
    /\ UNCHANGED <<remoteVars, dbVars, running, poll_count, changed,
                   synced, skipped>>
    /\ UNCHANGED svcVars

\* The ts of the fetched messages that are thread parents.
Parents(fetched) ==
    {fetched[i].ts : i \in {j \in 1..Len(fetched) : fetched[j].reply_count > 0}}

\* One turn of `for channel in channels:` (the SELECT has no ORDER BY: any
\* order): _sync_channel_messages(channel) runs to its end, then sleep(0.2).
SyncChannelMessages ==
    /\ pc = "sync"
    /\ \E c \in chanTodo, found \in BOOLEAN :
         \E res \in {GetChannelHistory(c, sync_state[c], pageSize, failAt) :
                       pageSize \in 1..HistoryLimit, failAt \in 0..2} :
         \E threadFails \in SUBSET Parents(res.msgs) :
         \E ops \in {ChannelOps(c, res.msgs, sync_state[c], threadFails)} :
           /\ SetDb(ApplyOps(Db, ops, Len(ops), found))
           /\ last' = LastSync(c, IF ~res.ok THEN "apierror"
                                  ELSE IF res.msgs = <<>> THEN "empty"
                                  ELSE "done", sync_state[c], res.msgs, ops,
                              Len(ops), found)
           /\ synced' = [synced EXCEPT ![c] = @ \/ res.ok]
           /\ skipped' = IF res.ok THEN skipped \ {c} ELSE skipped \cup {c}
           /\ chanTodo' = chanTodo \ {c}
    /\ UNCHANGED <<remoteVars, channels, pc, running, poll_count, changed>>
    /\ UNCHANGED svcVars

\* ---- one channel sync on any answer of conversations.history

\* Slack counts replies for a reply: a message is posted in the thread of
\* a reply (the code reads reply_count of whatever conversations.replies
\* answers, models.py line 83).
RemoteNestedReply ==
    /\ nextTs <= MaxTs
    /\ \E p \in {m \in rmsgs : m.thread_ts # NoTs}, u \in Authors :
         /\ rmsgs' = rmsgs \cup {[channel |-> p.channel, ts |-> nextTs,
                                  user |-> u, thread_ts |-> p.ts,
                                  reacts |-> {}]}
         /\ RemoteChanged(p.channel)
    /\ nextTs' = nextTs + 1
    /\ UNCHANGED <<convs, dbVars, pc, running, poll_count, chanTodo>>
    /\ UNCHANGED svcVars

\* What conversations.history may answer to a request with `oldest`: the
\* messages newer than it, those and the message of that ts, or (the
\* parameter ignored) every message; line 129 provides for the last two.
HistoryAnswers(c, old) ==
    {HistorySelection(c, old),
     {m \in TopLevel(c) : m.ts >= old},
     TopLevel(c)}

\* get_channel_history on one of these answers.
GetChannelHistoryOf(selection, pageSize, failAt) ==
    HistoryLoop(ApiSeq(NewestFirst(selection)), <<>>, pageSize, failAt)

\* _sync_channel_messages(channel) runs to its end on such an answer.
SyncChannelMessagesOnAnswer ==
    /\ pc = "sync"
    /\ \E c \in chanTodo, found \in BOOLEAN :
         \E res \in {GetChannelHistoryOf(sel, pageSize, failAt) :
                       sel \in HistoryAnswers(c, sync_state[c]),
                       pageSize \in 1..HistoryLimit, failAt \in 0..2} :
         \E threadFails \in SUBSET Parents(res.msgs) :
         \E ops \in {ChannelOps(c, res.msgs, sync_state[c], threadFails)} :
           /\ SetDb(ApplyOps(Db, ops, Len(ops), found))
           /\ last' = LastSync(c, IF ~res.ok THEN "apierror"
                                  ELSE IF res.msgs = <<>> THEN "empty"
                                  ELSE "done", sync_state[c], res.msgs, ops,
                              Len(ops), found)
           /\ synced' = [synced EXCEPT ![c] = @ \/ res.ok]
           /\ skipped' = IF res.ok THEN skipped \ {c} ELSE skipped \cup {c}
           /\ chanTodo' = chanTodo \ {c}
    /\ UNCHANGED <<remoteVars, channels, pc, running, poll_count, changed>>
    /\ UNCHANGED svcVars

\* Where an exception raised inside a cycle lands: the initial cycle
\* (lines 42-43) is outside the try, so it leaves start(); a poll's cycle
\* is caught at line 62 and followed by sleep(5).
AfterException == IF InitialCycle THEN "raised" ELSE "pause5"

\* Where CancelledError, raised at the await the task is suspended in,
\* lands: inside the try (the sleep and the cycle of a poll) line 59
\* catches it and breaks; in the initial cycle and in the sleep(5) of the
\* except branch nothing catches it.
AfterCancel ==
    IF pc = "pause5" \/ (pc \in CyclePcs /\ InitialCycle) THEN "cancelled"
    ELSE "returned"

\* _sync_channel_messages is left at one of its awaits, after k of its
\* repository calls: the next call raises (asyncpg or network error; the
\* client catches SlackApiError only), or the task is cancelled there.  An
\* upsert_reactions that raises may have run its DELETE and some INSERTs
\* (each statement commits on its own).
SyncInterrupted ==
    /\ pc = "sync"
    /\ \E c \in chanTodo, found \in BOOLEAN, how \in {"exception", "cancel"} :
         \E res \in {GetChannelHistory(c, sync_state[c], HistoryLimit, 0)} :
         \E threadFails \in SUBSET Parents(res.msgs) :
         \E ops \in {ChannelOps(c, res.msgs, sync_state[c], threadFails)} :
         \E k \in 0..Len(ops) :
         \E db \in {ApplyOps(Db, ops, k, found)} :
           /\ k < Len(ops) \/ k = 0
           /\ \/ SetDb(db)
              \/ /\ how = "exception"
                 /\ k < Len(ops)
                 /\ ops[k + 1].op = "upsert_reactions"
                 /\ \E part \in (SUBSET ops[k + 1].reacts)
                                \ {ops[k + 1].reacts} :
                      SetDb([db EXCEPT !.reactions =
                        UpsertReactions(db.reactions,
                          ReturningId(db.messages, db.nextId, ops[k + 1].msg),
                          part)])
           /\ last' = LastSync(c, how, sync_state[c], res.msgs, ops, k, found)
           /\ pc' = IF how = "exception" THEN AfterException ELSE AfterCancel
    /\ chanTodo' = {}
    /\ changed' = FALSE
    /\ UNCHANGED <<remoteVars, channels, running, poll_count, synced, skipped>>
    /\ UNCHANGED svcVars

\* `for channel in channels:` is exhausted; the loop condition is read.
EndCycle ==
    /\ pc = "sync"
    /\ chanTodo = {}
    /\ pc' = LoopTop
    /\ changed' = FALSE
    /\ last' = NoLast
    /\ UNCHANGED <<remoteVars, dbVars, running, poll_count, chanTodo,
                   synced, skipped>>
    /\ UNCHANGED svcVars

\* A faulty variant of the loop: the count is tested before it is
\* incremented.
PollBelowTestingFirst(n) ==
    /\ pc = "sleep"
    /\ poll_count < n
    /\ poll_count' = poll_count + 1
    /\ pc' = IF poll_count % RefreshEvery = 0 THEN "discover" ELSE "list"
    /\ last' = NoLast
    /\ UNCHANGED <<remoteVars, dbVars, running, chanTodo, changed,
                   synced, skipped>>
    /\ UNCHANGED svcVars

\* lines 49-57: the sleep of poll_interval ends; poll_count += 1; every
\* tenth poll refreshes the channel list first.  n: the polls observed.
PollBelow(n) ==
    /\ pc = "sleep"
    /\ poll_count < n
    /\ poll_count' = poll_count + 1
    /\ pc' = IF poll_count' % RefreshEvery = 0 THEN "discover" ELSE "list"
    /\ last' = NoLast
    /\ UNCHANGED <<remoteVars, dbVars, running, chanTodo, changed,
                   synced, skipped>>
    /\ UNCHANGED svcVars

Poll == PollBelow(MaxPolls)

\* line 64: the sleep(5) of the except branch ends; back to the loop top.
PauseDone ==
    /\ pc = "pause5"
    /\ pc' = LoopTop
    /\ last' = NoLast
    /\ UNCHANGED <<remoteVars, dbVars, running, poll_count, chanTodo, changed,
                   synced, skipped>>
    /\ UNCHANGED svcVars

\* _sync_channels or get_all_channels raises; _sync_channels may have
\* upserted some of the conversations before.
Raise ==
    /\ pc \in {"discover", "list"}
    /\ IF pc = "discover"
       THEN \E some \in (SUBSET convs) \ {convs} :
              channels' = channels \cup some
       ELSE channels' = channels
    /\ pc' = AfterException
    /\ chanTodo' = {}
    /\ changed' = FALSE
    /\ last' = NoLast
    /\ UNCHANGED <<remoteVars, messages, nextId, reactions, sync_state, users,
                   running, poll_count, synced, skipped>>
    /\ UNCHANGED svcVars

\* task.cancel() on the task running start(), suspended outside
\* _sync_channel_messages
Cancel ==
    /\ pc \in ActivePcs
    /\ pc' = AfterCancel
    /\ chanTodo' = {}
    /\ last' = NoLast
    /\ UNCHANGED <<remoteVars, dbVars, running, poll_count, changed,
                   synced, skipped>>
    /\ UNCHANGED svcVars

\* stop(), called by another task while start() is suspended
Stop ==
    /\ pc \in ActivePcs
    /\ running
    /\ running' = FALSE
    /\ last' = last
    /\ UNCHANGED <<remoteVars, dbVars, pc, poll_count, chanTodo, changed,
                   synced, skipped>>
    /\ UNCHANGED svcVars

Next ==
    \/ RemotePost
    \/ RemoteReply
    \/ RemoteReact
    \/ Start
    \/ SyncChannels
    \/ ListChannels
    \/ SyncChannelMessages
    \/ SyncInterrupted
    \/ EndCycle
    \/ Poll
    \/ PauseDone
    \/ Raise
    \/ Cancel
    \/ Stop

Spec == Init /\ [][Next]_vars

\* The same poller in a workspace of two conversations, whose messages get
\* neither replies nor reactions.
InitTwoChannels ==
    InitIn(Channels) /\ call = NoCall /\ ret = NoRet /\ did = <<>>

NextTwoChannels ==
    \/ RemotePost
    \/ Start
    \/ SyncChannels
    \/ ListChannels
    \/ SyncChannelMessages
    \/ SyncInterrupted
    \/ EndCycle
    \/ Poll
    \/ PauseDone
    \/ Raise
    \/ Cancel
    \/ Stop

SpecTwoChannels == InitTwoChannels /\ [][NextTwoChannels]_vars

\* The poller of one conversation, its cycles running to their end, with
\* any answer of conversations.history and reply counts on replies.
NextSync ==
    \/ RemotePost
    \/ RemoteReply
    \/ RemoteNestedReply
    \/ RemoteReact
    \/ Start
    \/ SyncChannels
    \/ ListChannels
    \/ SyncChannelMessagesOnAnswer
    \/ EndCycle
    \/ Poll

SpecSync == Init /\ [][NextSync]_vars

\* ---- the polls of a workspace without messages

\* The polls observed of it.
MaxCycles == 21

PollOn == PollBelow(MaxCycles)

NextRefresh ==
    \/ Start
    \/ SyncChannels
    \/ ListChannels
    \/ SyncChannelMessages
    \/ EndCycle
    \/ PollOn
    \/ Raise
    \/ PauseDone

SpecRefresh == Init /\ [][NextRefresh]_vars

\* ---- interrupted syncs in a workspace whose reactions do not change

\* A message is posted and reacted to before the poller fetches next; its
\* reactions stay as they are from then on.
RemotePostReacted ==
    /\ nextTs <= MaxTs
    /\ \E c \in convs, u \in Authors, rs \in SUBSET ReactionPairs :
         /\ rmsgs' = rmsgs \cup {[channel |-> c, ts |-> nextTs, user |-> u,
                                  thread_ts |-> NoTs, reacts |-> rs]}
         /\ RemoteChanged(c)
    /\ nextTs' = nextTs + 1
    /\ UNCHANGED <<convs, dbVars, pc, running, poll_count, chanTodo>>
    /\ UNCHANGED svcVars

NextCrash ==
    \/ RemotePostReacted
    \/ Start
    \/ SyncChannels
    \/ ListChannels
    \/ SyncChannelMessages
    \/ SyncInterrupted
    \/ EndCycle
    \/ Poll
    \/ PauseDone

SpecCrash == Init /\ [][NextCrash]_vars

\* ---- stop() in a workspace without messages
\* stop() as above; ret keeps the poll count at the call and whether the
\* loop had been entered.
StopNoted ==
    /\ pc \in ActivePcs
    /\ running
    /\ poll_count < MaxCycles
    /\ running' = FALSE
    /\ ret' = [state |-> "stopping", polls |-> poll_count,
               loop |-> ~(pc \in CyclePcs /\ InitialCycle)]
    /\ UNCHANGED <<remoteVars, dbVars, pc, poll_count, chanTodo, changed,
                   synced, skipped, last>>
    /\ UNCHANGED <<call, did>>

\* The steps of start(): each is the end of a sleep or of an awaited
\* operation.
StartSteps ==
    \/ Start
    \/ SyncChannels
    \/ ListChannels
    \/ SyncChannelMessages
    \/ EndCycle
    \/ PollOn
    \/ Raise
    \/ PauseDone

NextStop == StartSteps \/ StopNoted

\* Every sleep and every awaited operation ends.
SpecStop == Init /\ [][NextStop]_vars /\ WF_vars(StartSteps)

\* ----------------------------------------------------- services/search.py

\* Rows one source of search() has to answer, before its LIMIT.
MaxHits == 2
\* The greatest `limit` a search is called with.
MaxLimit == 2

\* Ids and ts are strings: sequences of characters.
SearchKeys ==
    {[channel_id |-> <<"C", "1">>, ts |-> <<"1", ".", "1">>],
     [channel_id |-> <<"C", "1">>, ts |-> <<"1", ".", "2">>],
     [channel_id |-> <<"C", "2">>, ts |-> <<"1", ".", "1">>]}

Scores == {1, 2}

\* What a source finds for the query: a message and its score.
Hits ==
    {[channel_id |-> k.channel_id, ts |-> k.ts, score |-> sc] :
       k \in SearchKeys, sc \in Scores}

SeqsUpTo(S, n) == UNION {[1..k -> S] : k \in 0..n}

\* The answers of a SELECT over messages: a message at most once.
RowSeqs ==
    {q \in SeqsUpTo(Hits, MaxHits) :
       \A i \in 1..Len(q), j \in 1..Len(q) :
           (q[i].channel_id = q[j].channel_id /\ q[i].ts = q[j].ts) => i = j}

\* search.messages of Slack answers whatever it answers.
MatchSeqs == SeqsUpTo(Hits, 1)

\* A call of search() and what its sources would answer without a LIMIT:
\* embedding_service: one is configured; embedding_ok: generate_embedding
\* gives a vector (None otherwise).
SearchCalls ==
    [op : {"search"}, limit : 0..MaxLimit,
     use_vector : BOOLEAN, use_text : BOOLEAN, use_slack_api : BOOLEAN,
     embedding_service : BOOLEAN, embedding_ok : BOOLEAN,
     vector_rows : RowSeqs, text_rows : RowSeqs, api_matches : MatchSeqs]

\* LIMIT $2, count=limit and [:limit], for limit >= 0
Take(q, n) == SubSeq(q, 1, Min(n, Len(q)))

\* The SearchResult objects a source builds from its rows.
AsResults(q, type) ==
    [i \in 1..Len(q) |->
        [channel_id |-> q[i].channel_id, ts |-> q[i].ts,
         score |-> q[i].score, match_type |-> type]]

\* A faulty variant of _vector_search: the query runs although no
\* embedding was generated.
VectorSearchWithoutEmbedding(c) ==
    IF ~c.embedding_service THEN <<>>
    ELSE AsResults(Take(c.vector_rows, c.limit), "vector")

\* _vector_search
VectorSearch(c) ==
    IF ~c.embedding_service THEN <<>>
    ELSE IF ~c.embedding_ok THEN <<>>
    ELSE AsResults(Take(c.vector_rows, c.limit), "vector")

\* _text_search
TextSearch(c) == AsResults(Take(c.text_rows, c.limit), "text")

\* _slack_api_search
SlackApiSearch(c) == AsResults(Take(c.api_matches, c.limit), "slack_api")

\* lines 64-79: `results` after the three extends.
SourceResults(c) ==
    (IF c.use_vector /\ c.embedding_service THEN VectorSearch(c) ELSE <<>>)
    \o (IF c.use_text THEN TextSearch(c) ELSE <<>>)
    \o (IF c.use_slack_api THEN SlackApiSearch(c) ELSE <<>>)

\* A faulty variant of the sort: a result goes before the entries of the
\* same score.
RECURSIVE InsertByScoreBeforeEqual(_, _)
InsertByScoreBeforeEqual(q, r) ==
    IF q = <<>> THEN <<r>>
    ELSE IF Head(q).score > r.score
         THEN <<Head(q)>> \o InsertByScoreBeforeEqual(Tail(q), r)
         ELSE <<r>> \o q

\* Where r goes into a list sorted by score, greatest first, so that it
\* stays behind the entries of the same score (sorted() is stable).
RECURSIVE InsertByScore(_, _)
InsertByScore(q, r) ==
    IF q = <<>> THEN <<r>>
    ELSE IF Head(q).score >= r.score
         THEN <<Head(q)>> \o InsertByScore(Tail(q), r)
         ELSE <<r>> \o q

\* A faulty variant of the sort: none.
SortedByScoreUnsorted(q) == q

\* sorted(results, key=lambda r: r.score, reverse=True)
RECURSIVE SortedByScore(_)
SortedByScore(q) ==
    IF q = <<>> THEN <<>>
    ELSE InsertByScore(SortedByScore(SubSeq(q, 1, Len(q) - 1)), q[Len(q)])

\* key = f'{result.message.channel_id}:{result.message.ts}'
ResultKey(r) == r.channel_id \o <<":">> \o r.ts

\* A faulty variant of the deduplication: every result is kept.
UniqueKeepingAll(q, seen) == q

\* lines 82-88: the first result of every key.
RECURSIVE Unique(_, _)
Unique(q, seen) ==
    IF q = <<>> THEN <<>>
    ELSE IF ResultKey(Head(q)) \in seen THEN Unique(Tail(q), seen)
         ELSE <<Head(q)>> \o Unique(Tail(q), seen \cup {ResultKey(Head(q))})

\* search()
SearchResults(c) == Take(Unique(SortedByScore(SourceResults(c)), {}), c.limit)

Returned(v) == [state |-> "returned", value |-> v]

\* What search() asks of the embedding service, the database and Slack.
SearchQueries(c) ==
    (IF c.use_vector /\ c.embedding_service
     THEN <<[op |-> "generate_embedding"]>>
          \o (IF c.embedding_ok THEN <<[op |-> "vector_query"]>> ELSE <<>>)
     ELSE <<>>)
    \o (IF c.use_text THEN <<[op |-> "text_query"]>> ELSE <<>>)
    \o (IF c.use_slack_api THEN <<[op |-> "search_messages"]>> ELSE <<>>)

Search ==
    /\ call.op = "search"
    /\ ret = NoRet
    /\ ret' = Returned(SearchResults(call))
    /\ did' = SearchQueries(call)
    /\ UNCHANGED <<pollerVars, call>>

InitSearch ==
    InitIn({"C1"}) /\ call \in SearchCalls /\ ret = NoRet /\ did = <<>>

NextSearch == Search

SpecSearch == InitSearch /\ [][NextSearch]_vars

\* ------------------------------------------------- services/status.py

\* The messages stored at most when a status report is made.
MaxRows == 3
\* The greatest ts of a stored message.
MaxTime == 2
\* LIMIT 50 of get_unread_mentions and get_dm_messages, scaled down.
RowLimit == 2
\* LIMIT 100 of get_threads_with_replies, scaled down.
ThreadRowLimit == 3

\* Priority
CRITICAL == 1
HIGH == 2
MEDIUM == 3

\* StatusItem.timestamp is None
NoTime == -1

\* client.user_id after authenticate()
Me == "U0"

\* The channels table when a report is made: a direct message, a group
\* direct message and a public channel, of the channel_type that
\* _get_channel_type gave them.
StatusChannels == {"D1", "G1", "C1"}

ChannelTypeOf(c) ==
    CASE c = "D1" -> "im"
      [] c = "G1" -> "mpim"
      [] OTHER -> "public_channel"

\* The rows the messages table can hold: created_at is the time of the ts
\* (Message.from_slack; the model counts both in the same unit);
\* mentions: the users that the text has a <@...> of.
MessageRows ==
    {[channel_id |-> c, ts |-> t, created_at |-> t, user_id |-> u,
      thread_ts |-> th, mentions |-> mn] :
        c \in StatusChannels, t \in 1..MaxTime, u \in {Me, "U1"},
        th \in {NoTs, 1}, mn \in {{}, {Me}}}

\* The messages tables of n rows at most: one row for a (channel_id, ts).
RECURSIVE TablesUpTo(_)
TablesUpTo(n) ==
    IF n = 0 THEN {{}}
    ELSE TablesUpTo(n - 1)
         \cup UNION {{T \cup {r} :
                        r \in {x \in MessageRows :
                                 \A y \in T :
                                     ~(/\ y.channel_id = x.channel_id
                                       /\ y.ts = x.ts)}} :
                     T \in TablesUpTo(n - 1)}

\* A call of get_status() and what it finds: user_id: client.user_id,
\* NoUser before authenticate(); since: now - hours_back; rows: the
\* messages table.
StatusCalls(n) ==
    [op : {"get_status"}, user_id : {NoUser, Me}, since : 0..(MaxTime - 1),
     rows : TablesUpTo(n)]

\* The rows of S in an order that ORDER BY created_at DESC allows.
Orderings(S) ==
    {q \in [1..Cardinality(S) -> S] :
       /\ \A i \in 1..Cardinality(S), j \in 1..Cardinality(S) :
            q[i] = q[j] => i = j
       /\ \A i \in 1..Cardinality(S), j \in 1..Cardinality(S) :
            i < j => q[i].created_at >= q[j].created_at}

\* What a SELECT ... ORDER BY m.created_at DESC LIMIT n can answer.
Answers(S, n) == {Take(q, n) : q \in Orderings(S)}

\* get_unread_mentions: m.text LIKE '%<@user_id>%' AND m.created_at > since
GetUnreadMentions(c) ==
    {m \in c.rows : c.user_id \in m.mentions /\ m.created_at > c.since}

\* get_dm_messages: c.channel_type = 'im' AND m.created_at > since
GetDmMessages(c) ==
    {m \in c.rows : /\ ChannelTypeOf(m.channel_id) = "im"
                    /\ m.created_at > c.since}

\* user_threads: SELECT DISTINCT channel_id, COALESCE(thread_ts, ts) ...
\* WHERE user_id = $1
UserThreads(c) ==
    {[channel_id |-> m.channel_id,
      thread_ts |-> IF m.thread_ts # NoTs THEN m.thread_ts ELSE m.ts] :
        m \in {x \in c.rows : x.user_id = c.user_id}}

\* get_threads_with_replies: the rows joined with user_threads ON
\* (m.ts = ut.thread_ts OR m.thread_ts = ut.thread_ts), WHERE
\* m.user_id != $1 AND m.created_at > since
GetThreadsWithReplies(c) ==
    {m \in c.rows :
       /\ \E ut \in UserThreads(c) :
            /\ m.channel_id = ut.channel_id
            /\ (m.ts = ut.thread_ts \/ m.thread_ts = ut.thread_ts)
       /\ m.user_id # c.user_id
       /\ m.created_at > c.since}

\* get_status with the answers of its three queries
Answered(c, mentions, dms, threads) ==
    [user_id |-> c.user_id, mentions |-> mentions, dms |-> dms,
     threads |-> threads]

\* StatusItem(...), without the fields derived for display (names,
\* text_preview, link, reason).
StatusItem(priority, row) ==
    [priority |-> priority, channel_id |-> row.channel_id,
     message_ts |-> row.ts, thread_ts |-> row.thread_ts,
     user_id |-> row.user_id, timestamp |-> row.created_at]

\* _get_mentions
GetMentions(c) ==
    [i \in 1..Len(c.mentions) |-> StatusItem(CRITICAL, c.mentions[i])]

\* [m for m in messages if m.user_id != self.client.user_id]
NotFromSelf(c, q) == SelectSeq(q, LAMBDA m : m.user_id # c.user_id)

\* A faulty variant of _get_dms: the messages that mention the user are
\* left to the mentions.
GetDmsNotMentioning(c) ==
    [i \in 1..Len(SelectSeq(NotFromSelf(c, c.dms),
                            LAMBDA m : c.user_id \notin m.mentions)) |->
        StatusItem(HIGH, SelectSeq(NotFromSelf(c, c.dms),
                                   LAMBDA m : c.user_id \notin m.mentions)[i])]

\* _get_dms
GetDms(c) ==
    [i \in 1..Len(NotFromSelf(c, c.dms)) |->
        StatusItem(HIGH, NotFromSelf(c, c.dms)[i])]

\* thread_key = f'{row["channel_id"]}:{row.get("thread_ts") or row["ts"]}'
ThreadKey(row) ==
    <<row.channel_id, IF row.thread_ts # NoTs THEN row.thread_ts ELSE row.ts>>

\* The first row of every thread_key.
RECURSIVE FirstOfThread(_, _)
FirstOfThread(q, seen_threads) ==
    IF q = <<>> THEN <<>>
    ELSE IF ThreadKey(Head(q)) \in seen_threads
         THEN FirstOfThread(Tail(q), seen_threads)
         ELSE <<Head(q)>>
              \o FirstOfThread(Tail(q), seen_threads \cup {ThreadKey(Head(q))})

\* _get_thread_replies
GetStatusThreadReplies(c) ==
    [i \in 1..Len(FirstOfThread(c.threads, {})) |->
        StatusItem(MEDIUM, FirstOfThread(c.threads, {})[i])]

\* x.timestamp.timestamp() if x.timestamp else 0
TimeKey(t) == IF t = NoTime THEN 0 ELSE t

\* A faulty variant of the sort key: the timestamp is not negated.
SortKeyBeforeOldestFirst(a, b) ==
    \/ a.priority < b.priority
    \/ /\ a.priority = b.priority
       /\ TimeKey(a.timestamp) < TimeKey(b.timestamp)

\* key(a) < key(b) for key = lambda x: (x.priority.value, -(...))
SortKeyBefore(a, b) ==
    \/ a.priority < b.priority
    \/ /\ a.priority = b.priority
       /\ (0 - TimeKey(a.timestamp)) < (0 - TimeKey(b.timestamp))

\* Where r goes into a list sorted by the key so that it stays behind the
\* entries of the same key (list.sort is stable).
RECURSIVE InsertByKey(_, _)
InsertByKey(q, r) ==
    IF q = <<>> THEN <<r>>
    ELSE IF SortKeyBefore(r, Head(q))
         THEN <<r>> \o q
         ELSE <<Head(q)>> \o InsertByKey(Tail(q), r)

\* items.sort(key=...)
RECURSIVE SortedByKey(_)
SortedByKey(q) ==
    IF q = <<>> THEN <<>>
    ELSE InsertByKey(SortedByKey(SubSeq(q, 1, Len(q) - 1)), q[Len(q)])

\* Status.items of get_status()
StatusItems(c) ==
    SortedByKey(GetMentions(c) \o GetDms(c) \o GetStatusThreadReplies(c))

Raised(e) == [state |-> "raised", error |-> e]

\* The queries of get_status(), without the lookups of channel and user
\* names for the items.
StatusQueries ==
    <<[op |-> "get_unread_mentions"], [op |-> "get_dm_messages"],
      [op |-> "get_threads_with_replies"], [op |-> "get_pending_reminders"]>>

\* get_status(); the reminders of the report are left out.
GetStatus ==
    /\ call.op = "get_status"
    /\ ret = NoRet
    /\ IF call.user_id = NoUser
       THEN ret' = Raised("RuntimeError") /\ did' = <<>>
       ELSE /\ \E mentions \in Answers(GetUnreadMentions(call), RowLimit),
                 dms \in Answers(GetDmMessages(call), RowLimit),
                 threads \in Answers(GetThreadsWithReplies(call),
                                     ThreadRowLimit) :
                 ret' = Returned([items |->
                          StatusItems(Answered(call, mentions, dms, threads))])
            /\ did' = StatusQueries
    /\ UNCHANGED <<pollerVars, call>>

InitStatus ==
    InitIn({"C1"}) /\ call \in StatusCalls(MaxRows) /\ ret = NoRet /\ did = <<>>

NextStatus == GetStatus

SpecStatus == InitStatus /\ [][NextStatus]_vars

StatusReturned == call.op = "get_status" /\ ret.state = "returned"

\* ---- start() and get_status() of one process

\* The calls of get_status() made beside a poller: before authenticate()
\* gave the client an identity, and after; the messages table is empty or
\* holds one direct message.
AuthCalls ==
    [op : {"get_status"}, user_id : {NoUser, Me}, since : {0},
     rows : {{}, {[channel_id |-> "D1", ts |-> 1, created_at |-> 1,
                   user_id |-> "U1", thread_ts |-> NoTs, mentions |-> {}]}}]

InitAuth == InitIn({"C1"}) /\ call \in AuthCalls /\ ret = NoRet /\ did = <<>>

NextAuth == NextTwoChannels \/ GetStatus

SpecAuth == InitAuth /\ [][NextAuth]_vars

\* ------------------------- permalinks: client.py, services/search.py

\* The digits a ts has at most after its decimal point.
MaxFrac == 7

\* The digits find_context takes as the fraction of a ts: ts_digits[-6:]
FractionDigits == 6

\* Strings are sequences of characters; None and '' are both <<>>, the
\* code only tests whether they are true.
Max(a, b) == IF a > b THEN a ELSE b

Drop(s, n) == SubSeq(s, n + 1, Len(s))

\* s.startswith(p)
StartsWith(s, p) == Len(s) >= Len(p) /\ SubSeq(s, 1, Len(p)) = p

\* p in s
Contains(s, p) ==
    \E i \in 1..(Len(s) + 1) :
        i + Len(p) - 1 <= Len(s) /\ SubSeq(s, i, i + Len(p) - 1) = p

\* s.find(ch) + 1 for a character of C: 0 when there is none
FirstIndex(s, C) ==
    IF \E i \in 1..Len(s) : s[i] \in C
    THEN CHOOSE i \in 1..Len(s) :
             s[i] \in C /\ \A j \in 1..(i - 1) : s[j] \notin C
    ELSE 0

\* s.split(sep)
RECURSIVE Split(_, _)
Split(s, sep) ==
    IF FirstIndex(s, {sep}) = 0 THEN <<s>>
    ELSE <<SubSeq(s, 1, FirstIndex(s, {sep}) - 1)>>
         \o Split(Drop(s, FirstIndex(s, {sep})), sep)

\* s.strip(ch)
RECURSIVE Strip(_, _)
Strip(s, ch) ==
    IF s = <<>> THEN s
    ELSE IF Head(s) = ch THEN Strip(Tail(s), ch)
    ELSE IF s[Len(s)] = ch THEN Strip(SubSeq(s, 1, Len(s) - 1), ch)
    ELSE s

\* s.replace('.', '')
WithoutDots(s) == SelectSeq(s, LAMBDA ch : ch # ".")

UpperLetters ==
    <<"A", "B", "C", "D", "E", "F", "G", "H", "I", "J", "K", "L", "M",
      "N", "O", "P", "Q", "R", "S", "T", "U", "V", "W", "X", "Y", "Z">>

LowerLetters ==
    <<"a", "b", "c", "d", "e", "f", "g", "h", "i", "j", "k", "l", "m",
      "n", "o", "p", "q", "r", "s", "t", "u", "v", "w", "x", "y", "z">>

DigitChars == {"0", "1", "2", "3", "4", "5", "6", "7", "8", "9"}

Letters ==
    {UpperLetters[i] : i \in 1..Len(UpperLetters)}
    \cup {LowerLetters[i] : i \in 1..Len(LowerLetters)}

\* s.lower()
Lower(s) ==
    [i \in 1..Len(s) |->
        IF \E k \in 1..Len(UpperLetters) : UpperLetters[k] = s[i]
        THEN LowerLetters[CHOOSE k \in 1..Len(UpperLetters) :
                              UpperLetters[k] = s[i]]
        ELSE s[i]]

\* 'https://slack.com/archives/'
WebPrefix ==
    <<"h", "t", "t", "p", "s", ":", "/", "/", "s", "l", "a", "c", "k", ".",
      "c", "o", "m", "/", "a", "r", "c", "h", "i", "v", "e", "s", "/">>

\* '?thread_ts='
ThreadSuffix == <<"?", "t", "h", "r", "e", "a", "d", "_", "t", "s", "=">>

\* get_message_link
GetMessageLink(channel_id, message_ts, thread_ts) ==
    WebPrefix \o channel_id \o <<"/", "p">> \o WithoutDots(message_ts)
    \o (IF thread_ts # <<>> /\ thread_ts # message_ts
        THEN ThreadSuffix \o WithoutDots(thread_ts)
        ELSE <<>>)

\* urlparse: the url has a scheme when a ':' follows a letter and letters,
\* digits, '+', '-' and '.' only.
SchemeEnd(url) ==
    IF /\ FirstIndex(url, {":"}) > 1
       /\ url[1] \in Letters
       /\ \A j \in 1..(FirstIndex(url, {":"}) - 1) :
              url[j] \in Letters \cup DigitChars \cup {"+", "-", "."}
    THEN FirstIndex(url, {":"})
    ELSE 0

\* urlparse: the netloc follows '//' and ends before '/', '?' or '#'.
NetlocEnd(rest) ==
    IF ~StartsWith(rest, <<"/", "/">>) THEN 0
    ELSE IF FirstIndex(Drop(rest, 2), {"/", "?", "#"}) = 0 THEN Len(rest)
    ELSE FirstIndex(Drop(rest, 2), {"/", "?", "#"}) + 1

\* urlparse: what is left after '#...' is cut off, and then '?...'
BeforeChar(s, ch) ==
    IF FirstIndex(s, {ch}) = 0 THEN s ELSE SubSeq(s, 1, FirstIndex(s, {ch}) - 1)

AfterChar(s, ch) ==
    IF FirstIndex(s, {ch}) = 0 THEN <<>> ELSE Drop(s, FirstIndex(s, {ch}))

\* urllib.parse.urlparse(message_link), for links without ';', control
\* characters and characters outside ASCII. It raises ValueError for a
\* netloc with one of '[' and ']' and not the other.
UrlParse(url) ==
    LET rest == Drop(url, SchemeEnd(url))
        netloc == SubSeq(rest, 3, NetlocEnd(rest))
        tail == Drop(rest, NetlocEnd(rest))
    IN  [error |-> (Contains(netloc, <<"[">>) /\ ~Contains(netloc, <<"]">>))
                   \/ (Contains(netloc, <<"]">>) /\ ~Contains(netloc, <<"[">>)),
         scheme |-> IF SchemeEnd(url) = 0 THEN <<>>
                    ELSE Lower(SubSeq(url, 1, SchemeEnd(url) - 1)),
         netloc |-> netloc,
         path |-> BeforeChar(BeforeChar(tail, "#"), "?"),
         query |-> AfterChar(BeforeChar(tail, "#"), "?")]

\* unquote of parse_qs for values without '%': a '+' is a space
Unquote(s) == [i \in 1..Len(s) |-> IF s[i] = "+" THEN " " ELSE s[i]]

\* parse_qs(query).get(name, [None])[0]: the value of the first
\* name=value pair of that name with a value that is not empty.
RECURSIVE FirstValue(_, _)
FirstValue(pairs, name) ==
    IF pairs = <<>> THEN <<>>
    ELSE IF /\ FirstIndex(Head(pairs), {"="}) > 0
            /\ AfterChar(Head(pairs), "=") # <<>>
            /\ Unquote(BeforeChar(Head(pairs), "=")) = name
         THEN Unquote(AfterChar(Head(pairs), "="))
         ELSE FirstValue(Tail(pairs), name)

QueryValue(query, name) == FirstValue(Split(query, "&"), name)

\* f'{ts_digits[:-6]}.{ts_digits[-6:]}'
TsOfDigits(ts_digits) ==
    SubSeq(ts_digits, 1, Max(Len(ts_digits) - FractionDigits, 0))
    \o <<".">>
    \o Drop(ts_digits, Max(Len(ts_digits) - FractionDigits, 0))

\* find_context, lines 232-250: channel_id and message_ts of a parsed link
LinkKey(parsed) ==
    LET parts == Split(Strip(parsed.path, "/"), "/")
    IN  IF \/ Contains(parsed.netloc,
                       <<"s", "l", "a", "c", "k", ".", "c", "o", "m">>)
           \/ StartsWith(parsed.path,
                         <<"/", "a", "r", "c", "h", "i", "v", "e", "s", "/">>)
        THEN IF /\ Len(parts) >= 2
                /\ parts[1] = <<"a", "r", "c", "h", "i", "v", "e", "s">>
             THEN [channel_id |-> parts[2],
                   message_ts |->
                     IF Len(parts) >= 3 /\ StartsWith(parts[3], <<"p">>)
                     THEN TsOfDigits(Tail(parts[3]))
                     ELSE <<>>]
             ELSE [channel_id |-> <<>>, message_ts |-> <<>>]
        ELSE IF parsed.scheme = <<"s", "l", "a", "c", "k">>
        THEN [channel_id |-> QueryValue(parsed.query, <<"i", "d">>),
              message_ts |->
                QueryValue(parsed.query,
                           <<"m", "e", "s", "s", "a", "g", "e">>)]
        ELSE [channel_id |-> <<>>, message_ts |-> <<>>]

\* Message.text is None
NoText == "None"

\* No row, no link
NoRow == [channel_id |-> <<>>]

\* repository.get_message: the row of that channel_id and ts, if stored
GetMessage(stored, channel_id, ts) ==
    IF \E m \in stored : m.channel_id = channel_id /\ m.ts = ts
    THEN CHOOSE m \in stored : m.channel_id = channel_id /\ m.ts = ts
    ELSE NoRow

\* self.search(source_message.text, limit=limit, use_slack_api=False)
ContextSearch(c) ==
    [op |-> "search", limit |-> c.limit,
     use_vector |-> TRUE, use_text |-> TRUE, use_slack_api |-> FALSE,
     embedding_service |-> c.embedding_service,
     embedding_ok |-> c.embedding_ok,
     vector_rows |-> c.vector_rows, text_rows |-> c.text_rows,
     api_matches |-> <<>>]

\* What a source of the search of find_context finds: nothing, or the
\* message of the first key with one score or another.
ContextRows ==
    SeqsUpTo({h \in Hits : h.channel_id = <<"C", "1">>
                           /\ h.ts = <<"1", ".", "1">>}, 1)

\* The ts of a message: a digit, the decimal point and up to MaxFrac
\* digits.
LinkTs ==
    {<<"1", ".">> \o f : f \in UNION {[1..n -> {"0", "1"}] : n \in 1..MaxFrac}}

LinkChannels == {<<"C", "1">>, <<"D", "2">>}

\* The thread_ts of the message of ts: None, its own ts, another
ThreadsOf(ts) == {<<>>, ts, <<"1", ".", "0", "0", "0", "0", "0", "2">>}

\* The calls of find_context with a link that get_message_link made of
\* the message c, ts (made_from); it is stored with its text or not at all.
PermalinkCallsOf(c, ts) ==
    {[op |-> "find_context",
      message_link |-> GetMessageLink(c, ts, th),
      made_from |-> [channel_id |-> c, ts |-> ts],
      limit |-> 1,
      stored |-> st,
      embedding_service |-> FALSE, embedding_ok |-> FALSE,
      vector_rows |-> <<>>, text_rows |-> rows] :
        th \in ThreadsOf(ts),
        st \in {{}, {[channel_id |-> c, ts |-> ts, text |-> "hi"]}},
        rows \in ContextRows}

\* Those calls for the messages of the channels cs.
PermalinkCalls(cs) ==
    UNION {PermalinkCallsOf(c, ts) : c \in cs, ts \in LinkTs}

\* Parts of other links
LinkSchemes ==
    {<<>>, <<"h", "t", "t", "p", "s", ":">>, <<"s", "l", "a", "c", "k", ":">>,
     <<"S", "l", "a", "c", "k", ":">>}

LinkNetlocs ==
    {<<>>, <<"/", "/", "s", "l", "a", "c", "k", ".", "c", "o", "m">>,
     <<"/", "/", "c", "h", "a", "n", "n", "e", "l">>,
     <<"/", "/", "[", "s", "l", "a", "c", "k", ".", "c", "o", "m">>}

ArchivesPath == <<"/", "a", "r", "c", "h", "i", "v", "e", "s">>

StoredTs == <<"1", ".", "0", "0", "0", "0", "0", "1">>

LinkPaths ==
    {<<>>,
     ArchivesPath,
     ArchivesPath \o <<"/", "C", "1">>,
     ArchivesPath \o <<"/", "C", "1", "/", "p">> \o WithoutDots(StoredTs),
     ArchivesPath \o <<"/", "/", "p">> \o WithoutDots(StoredTs),
     ArchivesPath \o <<"/", "C", "1", "/", "x">> \o WithoutDots(StoredTs)}

LinkQueries ==
    {<<>>,
     <<"?", "i", "d", "=", "C", "1", "&",
       "m", "e", "s", "s", "a", "g", "e", "=">> \o StoredTs,
     <<"?", "i", "d", "=", "&",
       "m", "e", "s", "s", "a", "g", "e", "=">> \o StoredTs}

\* The calls of find_context with any other link, the message C1, StoredTs
\* being stored without a text, with an empty one, with a text, or not.
\* generate_embedding gives no vector (embeddings.py).  limits: the values
\* of limit.
OtherLinkCalls(limits) ==
    {[op |-> "find_context",
      message_link |-> sch \o loc \o path \o qry,
      made_from |-> NoRow,
      limit |-> lim,
      stored |-> st,
      embedding_service |-> es, embedding_ok |-> FALSE,
      vector_rows |-> vrows, text_rows |-> trows] :
        sch \in LinkSchemes, loc \in LinkNetlocs, path \in LinkPaths,
        qry \in LinkQueries, lim \in limits,
        st \in {{}} \cup {{[channel_id |-> <<"C", "1">>, ts |-> StoredTs,
                           text |-> t]} : t \in {NoText, "", "hi"}},
        es \in BOOLEAN, vrows \in ContextRows, trows \in ContextRows}

ContextCalls(cs, limits) == PermalinkCalls(cs) \cup OtherLinkCalls(limits)

\* find_context
FindContext ==
    /\ call.op = "find_context"
    /\ ret = NoRet
    /\ \E parsed \in {UrlParse(call.message_link)} :
         IF parsed.error
         THEN ret' = Raised("ValueError") /\ did' = <<>>
         ELSE \E key \in {LinkKey(parsed)} :
           IF key.channel_id = <<>> \/ key.message_ts = <<>>
           THEN ret' = Returned(<<>>) /\ did' = <<>>
           ELSE \E source_message \in
                    {GetMessage(call.stored, key.channel_id, key.message_ts)} :
             /\ ret' = IF source_message # NoRow
                          /\ source_message.text \notin {NoText, ""}
                       THEN Returned(SearchResults(ContextSearch(call)))
                       ELSE Returned(<<>>)
             /\ did' = <<[op |-> "get_message",
                          channel_id |-> key.channel_id,
                          ts |-> key.message_ts]>>
                       \o (IF source_message # NoRow
                              /\ source_message.text \notin {NoText, ""}
                           THEN <<[op |-> "search"]>>
                                \o SearchQueries(ContextSearch(call))
                           ELSE <<>>)
    /\ UNCHANGED <<pollerVars, call>>

InitContext ==
    InitIn({"C1"}) /\ call \in ContextCalls(LinkChannels, 1..MaxLimit) /\ ret = NoRet /\ did = <<>>

NextContext == FindContext

SpecContext == InitContext /\ [][NextContext]_vars

ContextDone == call.op = "find_context" /\ ret # NoRet

\* ------------------------------------- get_conversations: slack/client.py

\* The pages of conversations.list, and the requests observed of one call.
MaxPages == 2
MaxRequests == MaxPages + 1
\* The conversations on one page at most.
MaxPerPage == 2

\* is_member of a conversation as the API gives it: True, False, or no
\* such key (direct messages).
MemberFlags == {"true", "false", "absent"}

Conversation(id, flag) == [id |-> id, is_member |-> flag]

\* The `channels` of one page: conversations of distinct ids.
PageChannels ==
    UNION {{q \in [1..n -> {Conversation(c, f) :
                              c \in Channels, f \in MemberFlags}] :
              \A i \in 1..n, j \in 1..n : q[i].id = q[j].id => i = j} :
           n \in 0..MaxPerPage}

\* No next_cursor in the response, or an empty one; the first request has
\* cursor=None.
NoCursor == 0

\* What conversations.list answers to a cursor: the request fails with
\* SlackApiError, or gives channels and next_cursor (the token of a page
\* k is k; a token may lead back to a page already given).
ListingsOver(page_channels) ==
    [1..MaxPages -> [channels : page_channels, next_cursor : 0..MaxPages,
                     fails : BOOLEAN]]

Listings == ListingsOver(PageChannels)

\* The page that a request with the cursor gets.
PageOf(listing, cursor) == listing[IF cursor = NoCursor THEN 1 ELSE cursor]

\* A faulty variant: only the conversations that carry is_member=True
\* are kept.
MembersFlaggedOnly(page_channels) ==
    SelectSeq(page_channels, LAMBDA ch : ch.is_member = "true")

\* lines 49-51: the conversations of a page that are appended,
\* channel.get('is_member', True).
Members(page_channels) ==
    SelectSeq(page_channels, LAMBDA ch : ch.is_member # "false")

\* The locals of get_conversations between two requests.
Running(conversations, cursor) ==
    [state |-> "running", conversations |-> conversations, cursor |-> cursor]

Locals == IF ret = NoRet THEN Running(<<>>, NoCursor) ELSE ret

\* One turn of `while True:`, lines 41-55: the request, the members of its
\* page, the next cursor, `if not cursor: break` and the return; or the
\* except branch, lines 60-62.
GetConversationsRequest ==
    /\ call.op = "get_conversations"
    /\ ret = NoRet \/ ret.state = "running"
    /\ Len(did) < MaxRequests
    /\ did' = Append(did, [op |-> "conversations_list",
                           cursor |-> Locals.cursor])
    /\ \E page \in {PageOf(call.listing, Locals.cursor)} :
         ret' = IF page.fails THEN Returned(<<>>)
                ELSE IF page.next_cursor = NoCursor
                THEN Returned(Locals.conversations \o Members(page.channels))
                ELSE Running(Locals.conversations \o Members(page.channels),
                             page.next_cursor)
    /\ UNCHANGED <<pollerVars, call>>

\* A faulty variant of get_conversations: the except branch returns the
\* conversations of the pages read so far.
RECURSIVE ConversationsLoopPartial(_, _, _, _)
ConversationsLoopPartial(listing, cursor, conversations, requests) ==
    LET page == PageOf(listing, cursor)
        made == Append(requests, [op |-> "conversations_list",
                                  cursor |-> cursor])
        all == conversations \o Members(page.channels)
    IN IF Len(requests) >= MaxRequests
       THEN [state |-> "running", value |-> <<>>, failed |-> FALSE,
             collected |-> conversations, requests |-> requests]
       ELSE IF page.fails
       THEN [state |-> "returned", value |-> conversations, failed |-> TRUE,
             collected |-> conversations, requests |-> made]
       ELSE IF page.next_cursor = NoCursor
       THEN [state |-> "returned", value |-> all, failed |-> FALSE,
             collected |-> all, requests |-> made]
       ELSE ConversationsLoopPartial(listing, page.next_cursor, all, made)

\* get_conversations as one call: the loop of lines 41-55 from a cursor
\* with the conversations collected and the requests made so far.  The
\* answer has the returned value, whether a request failed, what was
\* collected then, and the requests; state "running": no return within the
\* requests observed.
RECURSIVE ConversationsLoop(_, _, _, _)
ConversationsLoop(listing, cursor, conversations, requests) ==
    LET page == PageOf(listing, cursor)
        made == Append(requests, [op |-> "conversations_list",
                                  cursor |-> cursor])
        all == conversations \o Members(page.channels)
    IN IF Len(requests) >= MaxRequests
       THEN [state |-> "running", value |-> <<>>, failed |-> FALSE,
             collected |-> conversations, requests |-> requests]
       ELSE IF page.fails
       THEN [state |-> "returned", value |-> <<>>, failed |-> TRUE,
             collected |-> conversations, requests |-> made]
       ELSE IF page.next_cursor = NoCursor
       THEN [state |-> "returned", value |-> all, failed |-> FALSE,
             collected |-> all, requests |-> made]
       ELSE ConversationsLoop(listing, page.next_cursor, all, made)

GetConversations(listing) == ConversationsLoop(listing, NoCursor, <<>>, <<>>)

\* The upsert_channel calls of _sync_channels, lines 76-86.
UpsertChannelCalls(conversations) ==
    [i \in 1..Len(conversations) |->
        [op |-> "upsert_channel", id |-> conversations[i].id]]

\* _sync_channels on a listing of one conversation a page at most: what
\* get_conversations returned is kept in ret, its requests and the
\* upsert_channel calls in did.
SyncChannelsListed ==
    /\ pc = "discover"
    /\ \E listing \in ListingsOver({q \in PageChannels : Len(q) <= 1}) :
       \E answer \in {GetConversations(listing)} :
         /\ answer.state = "returned"
         /\ channels' = channels
                        \cup {answer.value[i].id : i \in 1..Len(answer.value)}
         /\ ret' = answer
         /\ did' = answer.requests \o UpsertChannelCalls(answer.value)
    /\ pc' = "list"
    /\ last' = NoLast
    /\ UNCHANGED <<remoteVars, messages, nextId, reactions, sync_state, users,
                   running, poll_count, chanTodo, changed, synced, skipped>>
    /\ UNCHANGED call

PollToRefresh == PollBelow(RefreshEvery)

NextDiscovery ==
    \/ Start
    \/ SyncChannelsListed
    \/ ListChannels
    \/ SyncChannelMessages
    \/ EndCycle
    \/ PollToRefresh

SpecDiscovery == InitTwoChannels /\ [][NextDiscovery]_vars

ConversationsCalls(listings) == [op : {"get_conversations"}, listing : listings]

InitConversations ==
    /\ InitIn({"C1"})
    /\ call \in ConversationsCalls(Listings)
    /\ ret = NoRet /\ did = <<>>

NextConversations == GetConversationsRequest

\* The event loop runs the coroutine on while it can take a step.
SpecConversations ==
    InitConversations /\ [][NextConversations]_vars
    /\ WF_vars(NextConversations)

\* ----------------------------------- poll_once: scripts/poc_polling.py
\* The polling script keeps the messages it has seen, by channel and ts, and
\* one cursor a channel.  One channel is modelled: ret holds seen_messages
\* (the reactions entry of each message seen), the cursor and the messages
\* of the history answer still to be handled; did holds the lines logged
\* by the last step.

MaxScriptTs == 2
ScriptTs == 1..MaxScriptTs

\* A reactions entry of the remote API: name, count and users.
ReactionEntries ==
    {[name |-> n, count |-> 1, users |-> <<"U9">>] : n \in {"+1", "eyes"}}

\* The reactions of a message as returned: the key may be absent.
Absent == [present |-> FALSE, value |-> <<>>]
Present(snapshot) == [present |-> TRUE, value |-> snapshot]
Snapshots ==
    {<<>>} \cup {<<e>> : e \in ReactionEntries}
           \cup {q \in [1..2 -> ReactionEntries] : q[1] # q[2]}
ReactionsFields == {Present(s) : s \in Snapshots} \cup {Absent}

\* An entry of seen_messages: the message kept, by its reactions.
NotSeen == [seen |-> FALSE, reactions |-> Absent]
Seen(msg) == [seen |-> TRUE, reactions |-> msg.reactions]

\* get('reactions', []), of a message or of {}
ReactionsOf(msg) == IF msg.reactions.present THEN msg.reactions.value ELSE <<>>

\* The messages of a history answer with a ts, newest first: those above
\* oldest.  Only the first message can have replies; get_thread_replies
\* gives them without the parent, or nothing when the request fails.
ScriptReply(ts, field) == [ts |-> ts, reactions |-> field]
ScriptMessage(ts, field, n, replies) ==
    [ts |-> ts, reactions |-> field, reply_count |-> n, replies |-> replies]
ScriptMessages(ts) ==
    {ScriptMessage(ts, f, 0, <<>>) : f \in ReactionsFields}
    \cup UNION {{ScriptMessage(ts, f, 1, r) : f \in ReactionsFields}
                 : r \in {<<>>} \cup {<<ScriptReply(t, g)>> :
                                        t \in {u \in ScriptTs : u > ts},
                                        g \in ReactionsFields}}
ScriptHistory(oldest) ==
    UNION {{h \in [1..Cardinality(tss) -> UNION {ScriptMessages(t) : t \in tss}] :
              \A i, j \in 1..Cardinality(tss) : i < j => h[i].ts > h[j].ts}
           : tss \in SUBSET {t \in ScriptTs : t > oldest}}

\* format_reactions, lines 185-199: one line a reaction, none without
\* reactions.
FormatReactions(msg) ==
    LET rs == ReactionsOf(msg)
    IN [i \in 1..Len(rs) |-> [op |-> "REACTION", ts |-> msg.ts,
                               name |-> rs[i].name, count |-> rs[i].count,
                               users |-> rs[i].users]]

\* lines 238-245
ReactionLines(msg, old_reactions) ==
    IF ReactionsOf(msg) # old_reactions THEN FormatReactions(msg)
    ELSE <<>>

\* lines 228-235: the replies not seen yet are logged and remembered.
RECURSIVE SeeReplies(_, _, _)
SeeReplies(replies, seen, lines) ==
    IF replies = <<>> THEN [seen |-> seen, lines |-> lines]
    ELSE LET reply == Head(replies)
         IN IF ~seen[reply.ts].seen
            THEN SeeReplies(Tail(replies),
                            [seen EXCEPT ![reply.ts] = Seen(reply)],
                            Append(lines, [op |-> "REPLY", ts |-> reply.ts]))
            ELSE SeeReplies(Tail(replies), seen, lines)

ScriptRunning(seen, cursor, todo) ==
    [state |-> "running", seen |-> seen, cursor |-> cursor, todo |-> todo]

\* poll_once, lines 206-214: the history above the cursor, oldest first.
ScriptFetch ==
    /\ call.op = "poll_once"
    /\ ret.todo = <<>>
    /\ \E h \in ScriptHistory(ret.cursor) :
         ret' = ScriptRunning(ret.seen, ret.cursor, Reverse(h))
    /\ did' = <<>>
    /\ UNCHANGED <<pollerVars, call>>

\* poll_once, lines 216-253, for the next message of the answer; after the
\* last one its ts becomes the cursor.
ScriptMessageStep ==
    /\ call.op = "poll_once"
    /\ ret.todo # <<>>
    /\ \E msg \in {Head(ret.todo)} :
       \E is_new \in {~ret.seen[msg.ts].seen} :
       \E first \in {IF is_new THEN <<[op |-> "NEW", ts |-> msg.ts]>>
                     ELSE <<>>} :
       \E after \in {IF is_new /\ msg.reply_count > 0
                     THEN SeeReplies(msg.replies, ret.seen, first)
                     ELSE [seen |-> ret.seen, lines |-> first]} :
         /\ did' = after.lines
                   \o ReactionLines(msg, ReactionsOf(after.seen[msg.ts]))
         /\ ret' = ScriptRunning(
                     [after.seen EXCEPT ![msg.ts] = Seen(msg)],
                     IF Tail(ret.todo) = <<>> THEN msg.ts ELSE ret.cursor,
                     Tail(ret.todo))
    /\ UNCHANGED <<pollerVars, call>>

InitScript ==
    /\ InitIn({"C1"})
    /\ call = [op |-> "poll_once"]
    /\ ret = ScriptRunning([t \in ScriptTs |-> NotSeen], 0, <<>>)
    /\ did = <<>>

NextScript == ScriptFetch \/ ScriptMessageStep

SpecScript == InitScript /\ [][NextScript]_vars

\* ------------------------------------- _text_search: services/search.py

\* The longest text of a stored message, and the longest query, in
\* characters.
MaxText == 3
MaxQuery == 2
\* The messages stored.
MaxTextRows == 2

TextChars == {"a", "A", "b"}
QueryChars == {"a", "B", "_", "%"}

\* The text column of a row without text (NULL).
NullText == <<"NULL">>

Texts == UNION {[1..n -> TextChars] : n \in 0..MaxText}
Queries == UNION {[1..n -> QueryChars] : n \in 0..MaxQuery}

\* text LIKE pattern, on lower-cased operands: % stands for any run of
\* characters, _ for any one character.
RECURSIVE Like(_, _)
Like(text, pattern) ==
    IF pattern = <<>> THEN text = <<>>
    ELSE IF Head(pattern) = "%"
         THEN \/ Like(text, Tail(pattern))
              \/ text # <<>> /\ Like(Tail(text), pattern)
    ELSE /\ text # <<>>
         /\ Head(pattern) = "_" \/ Head(pattern) = Head(text)
         /\ Like(Tail(text), Tail(pattern))

\* text ILIKE pattern; NULL ILIKE pattern is not true.
ILike(text, pattern) ==
    text # NullText /\ Like(Lower(text), Lower(pattern))

\* f'%{query}%'
SearchPattern(query) == <<"%">> \o query \o <<"%">>

\* A fraction, and the float 0.5.
Fraction(n, d) == [num |-> n, den |-> d]
Half == Fraction(1, 2)
SameScore(a, b) == a.num * b.den = b.num * a.den

\* re.search(re.escape(query), text, re.IGNORECASE): the starts (from 0) of
\* the occurrences of the query, its characters taken literally.
MatchStarts(query, text) ==
    {i \in 0..Len(text) :
       /\ i + Len(query) <= Len(text)
       /\ Lower(SubSeq(text, i + 1, i + Len(query))) = Lower(query)}

\* match.start() of the first occurrence
MatchStart(query, text) ==
    CHOOSE i \in MatchStarts(query, text) :
        \A j \in MatchStarts(query, text) : i <= j

\* lines 165-167: text = message.text or ''; the score of a row.
TextScore(query, text) ==
    LET t == IF text = NullText THEN <<>> ELSE text
    IN IF MatchStarts(query, t) # {} /\ t # <<>>
       THEN Fraction(Len(t) - MatchStart(query, t), Len(t))
       ELSE Half

\* The rows that the query of lines 145-160 selects, in its order.
TextSearchRows(c) ==
    Take(NewestFirst({r \in c.rows : ILike(r.text, SearchPattern(c.query))}),
         c.limit)

\* _text_search(query, limit)
TextSearchResults(c) ==
    [i \in 1..Len(TextSearchRows(c)) |->
        [ts |-> TextSearchRows(c)[i].ts,
         text |-> TextSearchRows(c)[i].text,
         score |-> TextScore(c.query, TextSearchRows(c)[i].text),
         match_type |-> "text"]]

\* The messages tables: a row for each ts, created in the order of the ts.
TextTables ==
    {{[ts |-> t, created_at |-> t, text |-> f[t]] : t \in 1..MaxTextRows} :
       f \in [1..MaxTextRows -> Texts \cup {NullText}]}

TextSearchCalls(limits) ==
    [op : {"text_search"}, query : Queries, limit : limits, rows : TextTables]

TextSearchCall ==
    /\ call.op = "text_search"
    /\ ret = NoRet
    /\ ret' = Returned(TextSearchResults(call))
    /\ did' = <<[op |-> "text_search"]>>
    /\ UNCHANGED <<pollerVars, call>>

InitTextSearch ==
    /\ InitIn({"C1"})
    /\ call \in TextSearchCalls(1..MaxTextRows)
    /\ ret = NoRet /\ did = <<>>

NextTextSearch == TextSearchCall

SpecTextSearch == InitTextSearch /\ [][NextTextSearch]_vars

TextSearchReturned == call.op = "text_search" /\ ret.state = "returned"

\* ------------------------------------------------------------- properties

Keys(rows) == {<<r.channel_id, r.ts>> : r \in rows}

RowsOf(rows, c) == {r \in rows : r.channel_id = c}

\* The ids of the rows stored for the message ts of channel c.
IdsOf(c, ts) == {r.id : r \in {x \in messages : x.channel_id = c /\ x.ts = ts}}

StoredReactions(c, ts) ==
    {<<r[2], r[3]>> : r \in {x \in reactions : x[1] \in IdsOf(c, ts)}}

UniqueKeys ==
    \A r1 \in messages, r2 \in messages :
        (r1.channel_id = r2.channel_id /\ r1.ts = r2.ts) => r1 = r2

\* C1, as the specification states it: when the workspace has not changed
\* between two consecutive cycles the second cycle adds no messages row, and
\* no two rows ever share a (channel_id, ts).
C1Idempotence ==
    /\ []UniqueKeys
    /\ [][(poll_count >= 1 /\ ~changed)
            => Keys(messages') \subseteq Keys(messages)]_vars

\* C1, as the code has it: a sync of a channel adds no messages row of that
\* channel when the channel's last sync ran to its end on a history that
\* was fetched (no API error) and the channel has not changed since; and no
\* two rows ever share a (channel_id, ts).
C1IdempotenceAfterCompleteSync ==
    /\ []UniqueKeys
    /\ [][\A c \in Channels :
            synced[c] => Keys(RowsOf(messages', c))
                           \subseteq Keys(RowsOf(messages, c))]_vars

\* A channel with rows is synced a second time with nothing changed.
C1Witness ==
    /\ last.again
    /\ last.how = "empty"
    /\ RowsOf(messages, last.chan) # {}

\* C2: the stored cursor of a channel never decreases.
C2CursorMonotone ==
    [][\A c \in Channels : sync_state'[c] >= sync_state[c]]_vars

\* A sync that found a cursor and moved it forward.
C2Witness ==
    /\ last.how = "done"
    /\ last.old # NoTs
    /\ sync_state[last.chan] > last.old

\* C3: after completed cycles every top-level message of a synced channel
\* at or below the channel's cursor has a messages row, however many
\* messages arrived between two cycles.
C3NoLossBelowCursor ==
    \A c \in Channels :
        (pc = "sleep" /\ synced[c])
        => \A m \in TopLevel(c) :
               m.ts <= sync_state[c] => <<c, m.ts>> \in Keys(messages)

\* C4: after a sync step the reaction rows of every message it fetched and
\* upserted are exactly the (name, user) pairs that were fetched with it.
C4ReactionSnapshotExact ==
    \A f \in last.stored : StoredReactions(last.chan, f.ts) = f.reacts

\* C5: once a cycle has completed after the last change of a channel, every
\* reaction that an already stored message at or below the cursor has on
\* the remote is in the reactions table.
C5GainedReactionStored ==
    \A c \in Channels :
        (pc = "sleep" /\ synced[c])
        => \A m \in {x \in rmsgs : x.channel = c} :
               (m.ts <= sync_state[c] /\ <<c, m.ts>> \in Keys(messages))
               => m.reacts \subseteq StoredReactions(c, m.ts)

\* The stored replies of the row r: same channel, thread_ts = r.ts, another ts.
ReplyRows(r) ==
    {x \in messages : /\ x.channel_id = r.channel_id
                      /\ x.thread_ts = r.ts
                      /\ x.ts # r.ts}

\* C6: after a completed cycle a stored parent with reply_count = k has
\* exactly k stored replies.
C6ThreadIntegrity ==
    \A r \in messages :
        (pc = "sleep" /\ synced[r.channel_id] /\ r.reply_count > 0)
        => Cardinality(ReplyRows(r)) = r.reply_count

\* C7: no step removes a (channel_id, ts) key from the messages table, and
\* a row changes only in a channel sync that upserts its own key.
C7RowsOnlyUpserted ==
    [][/\ Keys(messages) \subseteq Keys(messages')
       /\ \A r \in messages \ messages' :
              r.channel_id = last'.chan /\ r.ts \in last'.upserted]_vars

\* A sync has upserted a message that had a row already.
C7Witness == last.updated # {}

\* C8: an exception raised in a sync cycle never leaves start().
C8ExceptionNeverLeavesStart == pc # "raised"

\* C9: the loop is not left, and start() does not return, from inside a
\* channel sync that has written messages and not yet its cursor.
C9ExitOnlyAtCycleBoundary ==
    (pc = "returned" /\ last.how = "cancel") => last.upserted = {}

\* C10: once stop() was called during the inter-cycle sleep no cycle begins.
C10StopSeenDuringSleep ==
    [][(pc = "sleep" /\ ~running) => pc' \notin CyclePcs]_vars

\* C11: a channel sync whose history fetch ends in a Slack API error, on
\* whatever page, writes nothing to any table, and the cycle goes on with
\* the channels still to sync.
C11ApiErrorSkipsChannel ==
    [][(last' # last /\ last'.how = "apierror")
         => /\ UNCHANGED dbVars
            /\ pc' = "sync"
            /\ chanTodo' = chanTodo \ {last'.chan}]_vars

\* The fetch of a channel with two pages of messages has failed (a failure
\* of the second request gives this state), another channel is still to sync.
C11Witness ==
    /\ last.how = "apierror"
    /\ chanTodo # {}
    /\ GetChannelHistory(last.chan, last.old, 1, 0).msgs # <<>>
    /\ ~GetChannelHistory(last.chan, last.old, 1, 2).ok

\* C12: an exception raised by a repository call inside a channel sync ends
\* the cycle (no channel is left to sync, the poller goes to its pause or
\* out of start()) with that channel's cursor as it was; and every sync of
\* a channel, so also the next one of that channel, starts from the cursor
\* stored at that moment, every cycle listing all stored channels.
C12StorageFailureAbortsCycle ==
    [][/\ (last' # last /\ last'.how = "exception")
            => /\ sync_state' = sync_state
               /\ chanTodo' = {}
               /\ pc' = AfterException
       /\ (last' # last /\ last'.chan # "")
            => last'.old = sync_state[last'.chan]
       /\ (pc = "list" /\ pc' = "sync") => chanTodo' = channels]_vars

\* A poll's sync of one channel has failed after writing a message, while
\* the other channel has messages and was not synced.
C12Witness ==
    /\ last.how = "exception"
    /\ last.upserted # {}
    /\ pc = "pause5"
    /\ \E c \in channels \ {last.chan} :
         TopLevel(c) # {} /\ RowsOf(messages, c) = {}

\* C13: a channel sync of a poll in which the upsert of a fetched message
\* fails still advances the channel's cursor.
C13CursorAdvancesPastFailedMessage ==
    (pc = "pause5" /\ last.how = "exception" /\ last.at = "upsert_message")
    => sync_state[last.chan] > last.old

SearchReturned == call.op = "search" /\ ret.state = "returned"

SameMessage(a, b) == a.channel_id = b.channel_id /\ a.ts = b.ts

\* The results of q that are about the message of r.
Occurrences(q, r) == {i \in 1..Len(q) : SameMessage(q[i], r)}

\* C15: the list search returns has no two results with the same
\* (channel_id, ts).
C15SearchDedup ==
    SearchReturned
    => \A i \in 1..Len(ret.value) : Occurrences(ret.value, ret.value[i]) = {i}

\* A search whose sources found the same message twice returned two results.
C15Witness ==
    /\ SearchReturned
    /\ Len(ret.value) >= 2
    /\ \E i \in 1..Len(SourceResults(call)) :
         Cardinality(Occurrences(SourceResults(call),
                                 SourceResults(call)[i])) >= 2

\* C16: the list search returns is ordered by non-increasing score, has
\* min(limit, number of distinct (channel_id, ts) among the results of the
\* enabled sources) entries, and each entry has the highest score its
\* message has in those results.
C16SearchOrderCountBest ==
    SearchReturned
    => LET all == SourceResults(call)
           out == ret.value
           keys == {<<all[i].channel_id, all[i].ts>> : i \in 1..Len(all)}
       IN /\ \A i \in 1..Len(out), j \in 1..Len(out) :
                 i < j => out[i].score >= out[j].score
          /\ Len(out) = Min(call.limit, Cardinality(keys))
          /\ \A i \in 1..Len(out) :
                 /\ Occurrences(all, out[i]) # {}
                 /\ \A j \in Occurrences(all, out[i]) :
                        out[i].score >= all[j].score

\* A search returned two results of different score, fewer than the
\* messages found, one of them for a message that two sources scored
\* differently.
C16Witness ==
    /\ SearchReturned
    /\ Len(ret.value) = 2
    /\ ret.value[1].score > ret.value[2].score
    /\ \E i \in 1..Len(SourceResults(call)) :
         /\ SameMessage(SourceResults(call)[i], ret.value[1])
         /\ SourceResults(call)[i].score < ret.value[1].score
    /\ \E i \in 1..Len(SourceResults(call)) :
         Occurrences(ret.value, SourceResults(call)[i]) = {}

\* C20: with the vector source enabled and no embedding service
\* configured, or no embedding generated for the query, search returns
\* what it returns with the vector source disabled.
C20VectorUnavailableAsDisabled ==
    (SearchReturned /\ call.use_vector
       /\ (~call.embedding_service \/ ~call.embedding_ok))
    => ret.value = SearchResults([call EXCEPT !.use_vector = FALSE])

\* Such a search, with rows the vector query would have found, returned
\* the results of another source.
C20Witness ==
    /\ SearchReturned
    /\ call.use_vector
    /\ call.embedding_service
    /\ ~call.embedding_ok
    /\ call.vector_rows # <<>>
    /\ ret.value # <<>>

\* C17: the items of every status report are in the order of their
\* priority, CRITICAL before HIGH before MEDIUM, and the items of one
\* priority in the order of their timestamp, newest first.
C17StatusOrder ==
    StatusReturned =>
      \A i \in 1..Len(ret.value.items), j \in 1..Len(ret.value.items) :
          i < j =>
            /\ ret.value.items[i].priority <= ret.value.items[j].priority
            /\ ret.value.items[i].priority = ret.value.items[j].priority
                 => ret.value.items[i].timestamp
                      >= ret.value.items[j].timestamp

\* A report with items of the three priorities, two of them of one
\* priority and of different timestamps, and an older item of a more
\* urgent priority before a newer one of a less urgent priority.
C17Witness ==
    /\ StatusReturned
    /\ {ret.value.items[i].priority : i \in 1..Len(ret.value.items)}
         = {CRITICAL, HIGH, MEDIUM}
    /\ \E i \in 1..Len(ret.value.items), j \in 1..Len(ret.value.items) :
         /\ i < j
         /\ ret.value.items[i].priority = ret.value.items[j].priority
         /\ ret.value.items[i].timestamp > ret.value.items[j].timestamp
    /\ \E i \in 1..Len(ret.value.items), j \in 1..Len(ret.value.items) :
         /\ i < j
         /\ ret.value.items[i].priority < ret.value.items[j].priority
         /\ ret.value.items[i].timestamp < ret.value.items[j].timestamp

\* C18: find_context, given the link that get_message_link made of a
\* message, with its thread ts or without, looks up the message of
\* exactly that channel id and that ts, however many digits the ts has
\* after its decimal point.
C18PermalinkRoundTrip ==
    (ContextDone /\ call.made_from # NoRow)
    => /\ did # <<>>
       /\ did[1] = [op |-> "get_message",
                    channel_id |-> call.made_from.channel_id,
                    ts |-> call.made_from.ts]

\* C19: for a link that cannot be parsed into a channel id and a ts, or
\* whose message is not stored, or is stored without a text,
\* find_context returns the empty list: it does not raise and it runs no
\* search.
C19FindContextFailsSoftly ==
    (/\ ContextDone
     /\ \/ UrlParse(call.message_link).error
        \/ LinkKey(UrlParse(call.message_link)).channel_id = <<>>
        \/ LinkKey(UrlParse(call.message_link)).message_ts = <<>>
        \/ \A m \in call.stored :
             \/ m.channel_id # LinkKey(UrlParse(call.message_link)).channel_id
             \/ m.ts # LinkKey(UrlParse(call.message_link)).message_ts
             \/ m.text \in {NoText, ""})
    => /\ ret = Returned(<<>>)
       /\ \A i \in 1..Len(did) : did[i].op # "search"

\* C21: a sync asks Slack for a user (users.info) only while no users row
\* of that id is stored, and writes a users row only then; the users that
\* have a row keep it, and no sync looks them up or writes their row again.
C21UserLookedUpOnlyWhenAbsent ==
    [][/\ users \subseteq users'
       /\ last' # last =>
            \A i \in 1..Len(last'.calls) :
                last'.calls[i].op \in {"get_user_info", "upsert_user"}
                => /\ last'.calls[i].user \notin users
                   /\ \A j \in 1..(i - 1) :
                        ~(/\ last'.calls[j].op = "upsert_user"
                          /\ last'.calls[j].user = last'.calls[i].user)]_vars

\* In a poll, a sync that ran to its end came to the author of a message
\* twice, the row being stored the first time: it asked the repository
\* for the row both times, and Slack once.
C21Witness ==
    /\ poll_count >= 1
    /\ last.how = "done"
    /\ Cardinality({i \in 1..Len(last.calls) :
                      last.calls[i].op = "get_user"}) >= 2
    /\ Cardinality({i \in 1..Len(last.calls) :
                      last.calls[i].op = "get_user_info"}) = 1
    /\ Cardinality({i \in 1..Len(last.calls) :
                      last.calls[i].op = "upsert_user"}) = 1

\* The items of a priority in the report returned.
ItemsOf(priority) ==
    {ret.value.items[i] :
       i \in {j \in 1..Len(ret.value.items) :
                ret.value.items[j].priority = priority}}

\* The stored messages of the channels of direct messages and of group
\* direct messages, created within the window.
DmMessagesInWindow ==
    {m \in call.rows :
       /\ ChannelTypeOf(m.channel_id) \in {"im", "mpim"}
       /\ m.created_at > call.since}

\* C23: no HIGH item of a status report is by the user, and, when no more
\* messages than the row cap of the query are stored in the channels of
\* direct messages and of group direct messages within the window, every
\* one of them that is not by the user has a HIGH item.
C23HighItemsAreDmMessages ==
    StatusReturned =>
      /\ \A it \in ItemsOf(HIGH) :
           /\ it.user_id # call.user_id
           /\ \E m \in DmMessagesInWindow :
                it.channel_id = m.channel_id /\ it.message_ts = m.ts
      /\ Cardinality(DmMessagesInWindow) <= RowLimit =>
           \A m \in DmMessagesInWindow :
               m.user_id # call.user_id =>
                 \E it \in ItemsOf(HIGH) :
                     it.channel_id = m.channel_id /\ it.message_ts = m.ts

\* C24: every MEDIUM item of a status report is a reply (its thread ts is
\* set and differs from its own ts) that is not by the user, in a thread
\* that a stored message of the user belongs to, and no two MEDIUM items
\* are of the same channel and thread.
C24MediumItemsAreThreadReplies ==
    StatusReturned =>
      /\ \A it \in ItemsOf(MEDIUM) :
           /\ it.thread_ts # NoTs
           /\ it.thread_ts # it.message_ts
           /\ it.user_id # call.user_id
           /\ \E m \in call.rows :
                /\ m.user_id = call.user_id
                /\ m.channel_id = it.channel_id
                /\ (m.ts = it.thread_ts \/ m.thread_ts = it.thread_ts)
      /\ \A i \in 1..Len(ret.value.items), j \in 1..Len(ret.value.items) :
           (/\ ret.value.items[i].priority = MEDIUM
            /\ ret.value.items[j].priority = MEDIUM
            /\ ret.value.items[i].channel_id = ret.value.items[j].channel_id
            /\ ThreadKey([channel_id |-> ret.value.items[i].channel_id,
                          ts |-> ret.value.items[i].message_ts,
                          thread_ts |-> ret.value.items[i].thread_ts])
               = ThreadKey([channel_id |-> ret.value.items[j].channel_id,
                            ts |-> ret.value.items[j].message_ts,
                            thread_ts |-> ret.value.items[j].thread_ts]))
           => i = j

\* C22: when authenticate() is rejected, start() has raised with nothing
\* discovered, fetched or stored (the tables are as they were before the
\* call, no channel sync was made, the loop was not entered), and nothing
\* happens in the poller afterwards; a get_status() called while the client
\* has no identity raises RuntimeError and makes no query.
C22AuthFailureIsFatal ==
    /\ [](pc = "authfailed" =>
            /\ channels = {} /\ messages = {} /\ reactions = {}
            /\ users = {} /\ nextId = 1
            /\ sync_state = [c \in Channels |-> NoTs]
            /\ last = NoLast /\ chanTodo = {}
            /\ ~running /\ poll_count = 0)
    /\ [][pc = "authfailed" =>
            UNCHANGED <<pc, dbVars, last, chanTodo, running, poll_count>>]_vars
    /\ []((call.op = "get_status" /\ call.user_id = NoUser /\ ret # NoRet)
            => ret = Raised("RuntimeError") /\ did = <<>>)

\* start() has raised on the rejected authentication in a workspace that
\* holds a message, and get_status() of the client without identity has
\* raised.
C22Witness ==
    /\ pc = "authfailed"
    /\ rmsgs # {}
    /\ call.op = "get_status" /\ call.user_id = NoUser
    /\ ret = Raised("RuntimeError")

\* C25: every result of the text source has the score
\* 1 - matchStart/textLength, matchStart being the start of the first
\* occurrence of the query in the text whatever the case of the letters
\* and textLength the length of the text: the query occurs in the text, the
\* text is not empty, and the score is greater than 0 and at most 1.
C25TextScoreByMatchPosition ==
    TextSearchReturned =>
      \A i \in 1..Len(ret.value) :
          /\ Len(ret.value[i].text) > 0
          /\ MatchStarts(call.query, ret.value[i].text) # {}
          /\ SameScore(ret.value[i].score,
                       Fraction(Len(ret.value[i].text)
                                  - MatchStart(call.query, ret.value[i].text),
                                Len(ret.value[i].text)))
          /\ ret.value[i].score.num > 0
          /\ ret.value[i].score.num <= ret.value[i].score.den

\* The calls of a kind that the last sync made for messages of a fetch.
CallsMade(kind, via) ==
    {i \in 1..Len(last.calls) :
       last.calls[i].op = kind /\ last.calls[i].via = via}

\* C26: after a channel sync that fetched messages and ran to its end the
\* cursor of the channel is the greatest ts of the fetched batch; a sync
\* whose fetch gave no message changes no table.
C26CursorIsNewestFetched ==
    /\ [](last.how = "done" =>
            /\ \E i \in 1..Len(last.fetched) :
                 sync_state[last.chan] = last.fetched[i]
            /\ \A i \in 1..Len(last.fetched) :
                 last.fetched[i] <= sync_state[last.chan])
    /\ [][(pc = "sync" /\ pc' = "sync" /\ last'.how \in {"empty", "apierror"})
            => UNCHANGED dbVars]_vars

\* A sync from a cursor fetched two messages and moved the cursor up.
C26Witness ==
    /\ last.how = "done"
    /\ last.old # NoTs
    /\ Len(last.fetched) = 2
    /\ sync_state[last.chan] > last.old

\* The fetched messages at or below the cursor that the last sync read.
FetchedBelowCursor ==
    {last.fetched[i] :
       i \in {j \in 1..Len(last.fetched) :
                last.old # NoTs /\ last.fetched[j] <= last.old}}

\* The thread that the workspace message ts is a reply of (NoTs: none).
ParentOf(ts) == (CHOOSE m \in rmsgs : m.ts = ts).thread_ts

\* C27: a channel sync makes no call for a fetched history message whose
\* ts is at or below the cursor it read: no upsert_message, no
\* upsert_reactions, no get_thread_replies and no call for one of its
\* replies, no user lookup for its author (the cursor write at the end of
\* the sync may name it).
C27AtOrBelowCursorSkipped ==
    \A ts \in FetchedBelowCursor :
        \A i \in 1..Len(last.calls) :
            /\ (last.calls[i].via = "history" /\ last.calls[i].ts = ts)
                 => last.calls[i].op = "upsert_sync_state"
            /\ last.calls[i].via = "thread"
                 => ParentOf(last.calls[i].ts) # ts

\* A completed sync fetched a message below its cursor that has a reply,
\* a reaction and an author, and a newer message that it stored.
C27Witness ==
    /\ last.how = "done"
    /\ \E ts \in FetchedBelowCursor :
         /\ ThreadOf(last.chan, ts) # {}
         /\ \E m \in rmsgs : m.ts = ts /\ m.reacts # {} /\ m.user # NoUser
    /\ CallsMade("upsert_message", "history") # {}

\* C28: in a channel sync the upsert_message calls for the messages of the
\* history batch are made in non-decreasing order of ts, and each
\* upsert_message for a reply comes after the upsert_message of its
\* parent with no upsert_message of another history message in between.
C28OldestFirstRepliesAfterParent ==
    /\ \A i \in CallsMade("upsert_message", "history") :
         \A j \in CallsMade("upsert_message", "history") :
             i < j => last.calls[i].ts <= last.calls[j].ts
    /\ \A i \in CallsMade("upsert_message", "thread") :
         \E j \in CallsMade("upsert_message", "history") :
             /\ j < i
             /\ last.calls[j].ts = ParentOf(last.calls[i].ts)
             /\ \A k \in CallsMade("upsert_message", "history") :
                  ~(j < k /\ k < i)

\* A completed sync stored a parent, then its reply, then a newer
\* top-level message.
C28Witness ==
    /\ last.how = "done"
    /\ \E i \in CallsMade("upsert_message", "history") :
       \E r \in CallsMade("upsert_message", "thread") :
       \E j \in CallsMade("upsert_message", "history") :
           /\ i < r /\ r < j
           /\ last.calls[i].ts < last.calls[j].ts

\* The upsert_message calls for replies that the last sync made between
\* its call i and its next call for a message of the history batch.
ReplyUpsertsAfter(i) ==
    {r \in CallsMade("upsert_message", "thread") :
       /\ i < r
       /\ \A k \in (i + 1)..(r - 1) : last.calls[k].via = "thread"}

\* The ts that a sequence of calls is made for, in order.
RECURSIVE TsOfCalls(_, _)
TsOfCalls(i, n) ==
    IF n = 0 THEN <<>>
    ELSE TsOfCalls(i, n - 1)
         \o (IF /\ i + n <= Len(last.calls)
                /\ i + n \in ReplyUpsertsAfter(i)
             THEN <<last.calls[i + n].ts>> ELSE <<>>)

\* C29: when conversations.replies answered the parent and n replies, the
\* sync upserts those n replies, each once and in that order, as rows of
\* the channel, and upserts nothing for the first entry; when it answered
\* one entry or none, or failed, the sync upserts no reply.
C29RepliesWithoutParentStored ==
    \A i \in CallsMade("get_thread_replies", "history") :
        /\ TsOfCalls(i, Len(last.calls) - i)
             = (IF Len(last.calls[i].entries) > 1
                THEN Tail(last.calls[i].entries) ELSE <<>>)
        /\ \A r \in ReplyUpsertsAfter(i) :
             /\ last.calls[r].ts # last.calls[i].ts
             /\ \E m \in messages :
                  /\ m.channel_id = last.chan
                  /\ m.ts = last.calls[r].ts
                  /\ m.thread_ts = last.calls[i].ts

\* A completed sync fetched the thread of a parent, and
\* conversations.replies answered the parent and two replies.
C29Witness ==
    /\ last.how = "done"
    /\ \E i \in CallsMade("get_thread_replies", "history") :
         Len(last.calls[i].entries) = 3

\* The reply_count that Slack reports for the message ts of the channel of
\* the last sync.
ReplyCountOf(ts) == Cardinality(ThreadOf(last.chan, ts))

\* C30: a channel sync calls get_thread_replies once for each message of
\* the history batch that it processed and that has reply_count > 0, and
\* makes no other call of it: none for a message with reply_count = 0 and
\* none for a reply, whatever its reply_count.
C30ThreadsExpandedOneLevel ==
    /\ \A i \in CallsMade("upsert_message", "history") :
         Cardinality({f \in CallsMade("get_thread_replies", "history") :
                        last.calls[f].ts = last.calls[i].ts})
           = (IF ReplyCountOf(last.calls[i].ts) > 0 THEN 1 ELSE 0)
    /\ \A f \in 1..Len(last.calls) :
         last.calls[f].op = "get_thread_replies"
           => /\ last.calls[f].via = "history"
              /\ ParentOf(last.calls[f].ts) = NoTs
              /\ \E i \in CallsMade("upsert_message", "history") :
                   i < f /\ last.calls[i].ts = last.calls[f].ts

\* A completed sync fetched the thread of a parent and stored a reply of
\* it that has a reply_count greater than 0.
C30Witness ==
    /\ last.how = "done"
    /\ Cardinality(CallsMade("get_thread_replies", "history")) = 1
    /\ \E r \in CallsMade("upsert_message", "thread") :
         ReplyCountOf(last.calls[r].ts) > 0

\* C31: a sync that is interrupted between the upsert of a message and the
\* write of its reactions leaves the cursor of the channel as it was, and
\* once a later sync of the channel has run to its end every stored
\* message at or below the cursor has the reactions it was fetched with
\* (the reactions of the workspace here do not change after the post).
C31ReactionsWrittenAfterInterruption ==
    /\ [][(last'.how \in {"exception", "cancel"}
           /\ last'.at = "upsert_reactions")
            => sync_state' = sync_state]_vars
    /\ [](last.how = "done" =>
            \A m \in {x \in rmsgs : x.channel = last.chan} :
                (/\ m.ts <= sync_state[last.chan]
                 /\ <<last.chan, m.ts>> \in Keys(messages))
                => StoredReactions(last.chan, m.ts) = m.reacts)

\* C32: _sync_channels runs at the start, before the first message sync,
\* and then in the polls whose count is a multiple of 10 and in no other,
\* before the message sync of the poll; a message sync begins after the
\* discovery of its cycle or, in the other polls, right after the sleep.
C32DiscoveryEveryTenthPoll ==
    [][/\ pc' = "discover" /\ pc # "discover"
            => \/ pc = "init" /\ poll_count' = 0
               \/ /\ pc = "sleep"
                  /\ poll_count' = poll_count + 1
                  /\ poll_count' % 10 = 0
       /\ (pc = "sleep" /\ poll_count' = poll_count + 1)
            => pc' = (IF poll_count' % 10 = 0 THEN "discover" ELSE "list")
       /\ pc' = "list" /\ pc # "list"
            => \/ pc = "discover" /\ poll_count' = poll_count
               \/ pc = "sleep" /\ poll_count' % 10 # 0
       /\ pc' = "sync" /\ pc # "sync"
            => pc = "list" /\ poll_count' = poll_count]_vars

\* The twentieth poll begins with the discovery.
C32Witness ==
    /\ poll_count = 20
    /\ pc = "discover"

\* The page that the i-th request of a call gets when no request fails.
RECURSIVE PageAt(_)
PageAt(i) ==
    IF i = 1 THEN PageOf(call.listing, NoCursor)
    ELSE PageOf(call.listing, PageAt(i - 1).next_cursor)

\* The conversations of the first n pages requested that are members or
\* carry no flag, in the order of the pages.
RECURSIVE MembersUpTo(_)
MembersUpTo(n) ==
    IF n = 0 THEN <<>>
    ELSE MembersUpTo(n - 1)
         \o SelectSeq(PageAt(n).channels,
                      LAMBDA ch : ch.is_member \in {"true", "absent"})

\* C33: when no request fails get_conversations returns, page after page,
\* the conversations whose is_member is true or absent, and no other; it
\* has requested each page with the token of the page before, the first
\* without one, and only the last page requested had no token; and when
\* conversations.list gives a page without token after some pages the call
\* returns.
C33DiscoveryPagesToTheEnd ==
    /\ []((call.op = "get_conversations" /\ ret.state = "returned"
           /\ \A i \in 1..Len(did) : ~PageAt(i).fails)
            => /\ ret.value = MembersUpTo(Len(did))
               /\ PageAt(Len(did)).next_cursor = NoCursor
               /\ \A i \in 1..(Len(did) - 1) :
                    PageAt(i).next_cursor # NoCursor
               /\ did[1].cursor = NoCursor
               /\ \A i \in 2..Len(did) :
                    did[i].cursor = PageAt(i - 1).next_cursor)
    /\ []((call.op = "get_conversations"
           /\ \E n \in 1..MaxPages : PageAt(n).next_cursor = NoCursor)
            => <>(ret.state = "returned"))

\* A call returned conversations of two pages, having left out one that
\* is not a member and kept one without the flag.
C33Witness ==
    /\ call.op = "get_conversations"
    /\ ret.state = "returned"
    /\ Len(did) = 2
    /\ \A i \in 1..2 : ~PageAt(i).fails
    /\ Len(ret.value) = 2
    /\ ret.value[1].id # ret.value[2].id
    /\ \E i \in 1..2 : ret.value[i].is_member = "absent"
    /\ \E i \in 1..Len(PageAt(1).channels) :
         PageAt(1).channels[i].is_member = "false"
    /\ PageAt(2).channels # <<>> /\ Members(PageAt(1).channels) # <<>>

\* C34: when a request of the conversation listing fails, get_conversations
\* returns the empty list, whatever the pages before gave; _sync_channels
\* then makes no upsert_channel call and leaves the channels table as it
\* was, and the cycle goes on to the message sync, which takes the channels
\* stored.
C34ListingFailureKeepsChannels ==
    [][/\ (pc = "discover" /\ pc' # "discover" /\ ret'.failed)
            => /\ ret'.value = <<>>
               /\ \A i \in 1..Len(did') : did'[i].op # "upsert_channel"
               /\ channels' = channels
               /\ pc' = "list"
       /\ (pc = "list" /\ pc' # "list")
            => pc' = "sync" /\ chanTodo' = channels
                            /\ channels' = channels]_vars

\* The discovery of the tenth poll failed on its second request after a
\* first page with a conversation, the channels table holding a row; the
\* message sync comes next.
C34Witness ==
    /\ poll_count = 10
    /\ pc = "list"
    /\ ret.state = "returned" /\ ret.failed
    /\ Len(ret.requests) = 2
    /\ ret.collected # <<>>
    /\ channels # {}
    /\ \A i \in 1..Len(ret.collected) : ret.collected[i].id \notin channels

\* C35: in the polling script, when the reactions of the message being
\* handled differ from the reactions remembered for it, compared as
\* sequences, a REACTION line is logged for the message and the reactions
\* remembered become the ones fetched.
C35ReactionChangeIsReported ==
    [][(ret.todo # <<>> /\ ret'.todo = Tail(ret.todo))
         => LET msg == Head(ret.todo)
            IN (/\ ret.seen[msg.ts].seen
                /\ ReactionsOf(msg) # ReactionsOf(ret.seen[msg.ts]))
                 => /\ \E i \in 1..Len(did') :
                         did'[i].op = "REACTION" /\ did'[i].ts = msg.ts
                    /\ ret'.seen[msg.ts] = Seen(msg)]_vars

\* C36: after stop() was called with the polling loop entered, start()
\* returns in the end, and the polls begun since the call are one at most.
C36StopEndsStart ==
    /\ []((ret.state = "stopping" /\ ret.loop) => <>(pc = "returned"))
    /\ []((ret.state = "stopping" /\ ret.loop)
            => poll_count <= ret.polls + 1)

\* start() has returned after a stop() during the sleep and the cycle that
\* followed the sleep.
C36Witness ==
    /\ ret.state = "stopping" /\ ret.loop
    /\ pc = "returned"
    /\ poll_count = ret.polls + 1

\* C37: a cancellation delivered in the inter-cycle sleep or inside a cycle
\* (at a suspension point of the cycle or inside a channel sync) ends
\* start() by a return; one delivered in the pause after a failed cycle
\* ends it with the cancellation error.
C37CancellationEndsStart ==
    [][/\ Cancel => IF pc = "pause5" THEN pc' = "cancelled"
                    ELSE pc' = "returned"
       /\ (last' # last /\ last'.how = "cancel") => pc' = "returned"]_vars

\* The items of the report returned for a stored message, of a priority.
ItemsFor(m, priority) ==
    {i \in 1..Len(ret.value.items) :
       /\ ret.value.items[i].priority = priority
       /\ ret.value.items[i].channel_id = m.channel_id
       /\ ret.value.items[i].message_ts = m.ts}

\* C38: a status report has one item at most for a stored message and a
\* priority, and, the queries being within their row caps, a message that
\* mentions the user has a CRITICAL item, and besides it a HIGH item when
\* it is a direct message not by the user, and a MEDIUM item when it is the
\* only message selected of a thread the user took part in: the items of a
\* report are not unique by channel and ts.
C38OneItemPerMatchingTier ==
    StatusReturned =>
      \A m \in call.rows :
        /\ \A p \in {CRITICAL, HIGH, MEDIUM} : Cardinality(ItemsFor(m, p)) <= 1
        /\ (/\ m \in GetUnreadMentions(call)
            /\ Cardinality(GetUnreadMentions(call)) <= RowLimit)
             => /\ ItemsFor(m, CRITICAL) # {}
                /\ (/\ m \in GetDmMessages(call)
                    /\ m.user_id # call.user_id
                    /\ Cardinality(GetDmMessages(call)) <= RowLimit)
                     => ItemsFor(m, HIGH) # {}
                /\ (/\ m \in GetThreadsWithReplies(call)
                    /\ \A x \in GetThreadsWithReplies(call) :
                         ThreadKey(x) = ThreadKey(m) => x = m
                    /\ Cardinality(GetThreadsWithReplies(call))
                         <= ThreadRowLimit)
                     => ItemsFor(m, MEDIUM) # {}

\* A report with a CRITICAL, a HIGH and a MEDIUM item for one stored
\* message: a direct message that mentions the user, in a thread of the
\* user.
C38Witness ==
    /\ StatusReturned
    /\ \E m \in call.rows :
         /\ ItemsFor(m, CRITICAL) # {}
         /\ ItemsFor(m, HIGH) # {}
         /\ ItemsFor(m, MEDIUM) # {}

\* The place of a source in the order its results are collected in.
SourceRank(type) ==
    CASE type = "vector" -> 1
      [] type = "text" -> 2
      [] OTHER -> 3

\* Where the result r is in the list q.
PlaceIn(q, r) == CHOOSE k \in 1..Len(q) : q[k] = r

\* C39: a result search returns is, among the results of the enabled
\* sources for its message with its score, the one of the earliest source
\* in the order vector, text, Slack API; and two results returned with the
\* same score are in the order the sources gave them in: by source, and
\* within a source as answered.
C39TiesKeepSourceOrder ==
    SearchReturned
    => LET all == SourceResults(call)
           out == ret.value
       IN /\ \A i \in 1..Len(out) :
               /\ \E k \in 1..Len(all) : all[k] = out[i]
               /\ \A j \in Occurrences(all, out[i]) :
                    all[j].score = out[i].score
                      => SourceRank(out[i].match_type)
                           <= SourceRank(all[j].match_type)
          /\ \A i \in 1..Len(out), j \in 1..Len(out) :
               (i < j /\ out[i].score = out[j].score)
                 => /\ SourceRank(out[i].match_type)
                         <= SourceRank(out[j].match_type)
                    /\ PlaceIn(all, out[i]) < PlaceIn(all, out[j])

\* A search returned two results of the same score from different sources,
\* the first for a message that the source of the second scored the same.
C39Witness ==
    /\ SearchReturned
    /\ Len(ret.value) = 2
    /\ ret.value[1].score = ret.value[2].score
    /\ ret.value[1].match_type # ret.value[2].match_type
    /\ \E j \in Occurrences(SourceResults(call), ret.value[1]) :
         /\ SourceResults(call)[j].score = ret.value[1].score
         /\ SourceResults(call)[j].match_type = ret.value[2].match_type

=============================================================================
